---- MODULE Spec2Model ----
(***************************************************************************)
(* The arena-backed split-ownership doubly-linked list of src/src/lib.rs.  *)
(*                                                                         *)
(* The arena is a sequence of node slots; a slot's index is the stable     *)
(* address the arena hands out.  A half handle (StaticRcRef<_, 1, 2>) is   *)
(* modelled by the index of the node it denotes; moving a handle out of a  *)
(* slot (Option::take) leaves None behind, as in the code.  Option<X> is   *)
(* the empty tuple (None) or a one-element tuple (Some(x)).                *)
(***************************************************************************)
EXTENDS Integers, Sequences, FiniteSets, TLC

VARIABLES arena, lists, last, run, panicked, dbg_failed, cursor, token,
          third, plain, opt, first, deiter

vars ==
    <<arena, lists, last, run, panicked, dbg_failed, cursor, token, third,
      plain, opt, first, deiter>>

\* The other variants of the list, each with a state of its own.
variants == <<plain, opt, first, deiter>>

\* The lists, their arena and the record of the calls made on them.
heap == <<arena, lists, last, run, panicked, dbg_failed>>

\* What the operations on the lists and their cursors leave alone.
rest == <<token, third, variants>>

(* ---------------------------------------------------------------- bounds *)

\* Number of node slots the arena may hand out in one behaviour.
MaxNodes == 4

\* Split points tried by split_off are 0..MaxAt.
MaxAt == 4

\* Number of node slots handed out in the behaviours that hold a cursor.
MaxCursorNodes == 3

\* Calls of next() followed after an iterator's first None.
MaxNones == 2

\* Number of keys the slot map of the slot-map list hands out.
MaxSlots == 4

\* Number of slots the arena of the Option-slot variant hands out.
MaxOptNodes == 4

\* Number of nodes the Rc/RefCell list allocates in one behaviour.
MaxRcNodes == 4

ListIds == {"l1", "l2"}

\* The scopes (threads among them) that may hold a borrow of the token.
Holders == {"t1", "t2", "t3"}

(* ---------------------------------------------------------------- Option *)

None == <<>>

Some(x) == <<x>>

Unwrap(o) == o[1]

(* ------------------------------------------------------------------ Node *)

Node(value, left, right) == [value |-> value, left |-> left, right |-> right]

\* The result of a list operation: the arena, the list's head_tail, the
\* returned value, whether the call panicked (a failed unwrap/expect or a
\* join of two halves of different nodes) and whether a debug assertion was
\* violated on the way.
Res(ar, self, ret, panic, dbg) ==
    [arena |-> ar, self |-> self, ret |-> ret, panic |-> panic, dbg |-> dbg]

\* Arena::alloc of a fresh node, then StaticRcRef::split of the full handle:
\* both halves denote the new slot.
\* new_halves with a free list: a retired slot is taken when there is one.
new_halves_reuse(ar, value) ==
    IF \E i \in 1..Len(ar) : ar[i].value = None
    THEN LET node == CHOOSE i \in 1..Len(ar) : ar[i].value = None
         IN  [arena |-> [ar EXCEPT ![node] = Node(Some(value), None, None)],
              one |-> node, two |-> node]
    ELSE [arena |-> Append(ar, Node(Some(value), None, None)),
          one |-> Len(ar) + 1, two |-> Len(ar) + 1]

\* new_halves that allocates a node without its value.
new_halves_empty(ar, value) ==
    LET node == Len(ar) + 1
    IN  [arena |-> Append(ar, Node(None, None, None)),
         one |-> node, two |-> node]

new_halves(ar, value) ==
    LET node == Len(ar) + 1
    IN  [arena |-> Append(ar, Node(Some(value), None, None)),
         one |-> node, two |-> node]

\* into_inner that reads the value and leaves it in the node.
into_inner_keep(ar, left, right) ==
    IF left # right
    THEN [arena |-> ar, value |-> None, panic |-> TRUE, dbg |-> FALSE]
    ELSE [arena |-> ar, value |-> ar[left].value,
          panic |-> ar[left].value = None,
          dbg |-> ar[left].left # None \/ ar[left].right # None]

\* join the two halves (panics unless both denote the same node), then take
\* the value out of the node.
into_inner(ar, left, right) ==
    IF left # right
    THEN [arena |-> ar, value |-> None, panic |-> TRUE, dbg |-> FALSE]
    ELSE LET node == ar[left]
             dbg == node.left # None \/ node.right # None
         IN  IF node.value = None
             THEN [arena |-> ar, value |-> None, panic |-> TRUE, dbg |-> dbg]
             ELSE [arena |-> [ar EXCEPT ![left].value = None],
                   value |-> node.value, panic |-> FALSE, dbg |-> dbg]

\* push_front that puts a half of the old head, not of the new node, in
\* the old head's left slot.
push_front_crossed(ar, self, value) ==
    LET nh == new_halves(ar, value)
    IN  IF self # None
        THEN LET head == Unwrap(self)[1]
                 tail == Unwrap(self)[2]
                 ar1 == [nh.arena EXCEPT ![head].left = Some(head),
                                         ![nh.two].right = Some(head)]
             IN  Res(ar1, Some(<<nh.two, tail>>), None, FALSE, FALSE)
        ELSE Res(nh.arena, Some(<<nh.one, nh.two>>), None, FALSE, FALSE)

\* push_front that does not write the old head's left link.
push_front_no_left(ar, self, value) ==
    LET nh == new_halves(ar, value)
    IN  IF self # None
        THEN LET head == Unwrap(self)[1]
                 tail == Unwrap(self)[2]
                 ar1 == [nh.arena EXCEPT ![nh.two].right = Some(head)]
             IN  Res(ar1, Some(<<nh.two, tail>>), None, FALSE, FALSE)
        ELSE Res(nh.arena, Some(<<nh.one, nh.two>>), None, FALSE, FALSE)

push_front(ar, self, value) ==
    LET nh == new_halves(ar, value)
    IN  IF self # None
        THEN LET head == Unwrap(self)[1]
                 tail == Unwrap(self)[2]
                 ar1 == [nh.arena EXCEPT ![head].left = Some(nh.one)]
                 ar2 == [ar1 EXCEPT ![nh.two].right = Some(head)]
             IN  Res(ar2, Some(<<nh.two, tail>>), None, FALSE, FALSE)
        ELSE Res(nh.arena, Some(<<nh.one, nh.two>>), None, FALSE, FALSE)

\* push_back that leaves the old tail in the boundary pair.
push_back_stale_tail(ar, self, value) ==
    LET nh == new_halves(ar, value)
    IN  IF self # None
        THEN LET head == Unwrap(self)[1]
                 tail == Unwrap(self)[2]
                 ar1 == [nh.arena EXCEPT ![tail].right = Some(nh.one),
                                         ![nh.two].left = Some(tail)]
             IN  Res(ar1, Some(<<head, tail>>), None, FALSE, FALSE)
        ELSE Res(nh.arena, Some(<<nh.one, nh.two>>), None, FALSE, FALSE)

\* push_back that does not write the new node's left link.
push_back_no_left(ar, self, value) ==
    LET nh == new_halves(ar, value)
    IN  IF self # None
        THEN LET head == Unwrap(self)[1]
                 tail == Unwrap(self)[2]
                 ar1 == [nh.arena EXCEPT ![tail].right = Some(nh.one)]
             IN  Res(ar1, Some(<<head, nh.two>>), None, FALSE, FALSE)
        ELSE Res(nh.arena, Some(<<nh.one, nh.two>>), None, FALSE, FALSE)

\* push_back with the body of push_front pasted in.
push_back_pasted(ar, self, value) == push_front(ar, self, value)

push_back(ar, self, value) ==
    LET nh == new_halves(ar, value)
    IN  IF self # None
        THEN LET head == Unwrap(self)[1]
                 tail == Unwrap(self)[2]
                 ar1 == [nh.arena EXCEPT ![tail].right = Some(nh.one)]
                 ar2 == [ar1 EXCEPT ![nh.two].left = Some(tail)]
             IN  Res(ar2, Some(<<head, nh.two>>), None, FALSE, FALSE)
        ELSE Res(nh.arena, Some(<<nh.one, nh.two>>), None, FALSE, FALSE)

\* pop_front that unwraps the boundary pair instead of returning None.
\* pop_front that reads head.right without taking it out of the slot.
pop_front_no_take(ar, self) ==
    IF self = None
    THEN Res(ar, None, None, FALSE, FALSE)
    ELSE LET head == Unwrap(self)[1]
             tail == Unwrap(self)[2]
         IN  IF head = tail
             THEN LET ii == into_inner(ar, head, tail)
                  IN  Res(ii.arena, None, ii.value, ii.panic, ii.dbg)
             ELSE IF ar[head].right = None
             THEN Res(ar, None, None, TRUE, FALSE)
             ELSE LET next == Unwrap(ar[head].right)
                  IN  IF ar[next].left = None
                      THEN Res(ar, None, None, TRUE, FALSE)
                      ELSE LET other_head == Unwrap(ar[next].left)
                               ar2 == [ar EXCEPT ![next].left = None]
                               ii == into_inner(ar2, head, other_head)
                           IN  Res(ii.arena, Some(<<next, tail>>), ii.value,
                                   ii.panic, ii.dbg)

pop_front_unwrap(ar, self) ==
    IF self = None
    THEN Res(ar, None, None, TRUE, FALSE)
    ELSE LET head == Unwrap(self)[1]
             tail == Unwrap(self)[2]
         IN  IF head = tail
             THEN LET ii == into_inner(ar, head, tail)
                  IN  Res(ii.arena, None, ii.value, ii.panic, ii.dbg)
             ELSE LET next == Unwrap(ar[head].right)
                      ar1 == [ar EXCEPT ![head].right = None]
                      other_head == Unwrap(ar1[next].left)
                      ar2 == [ar1 EXCEPT ![next].left = None]
                      ii == into_inner(ar2, head, other_head)
                  IN  Res(ii.arena, Some(<<next, tail>>), ii.value,
                          ii.panic, ii.dbg)

pop_front(ar, self) ==
    IF self = None
    THEN Res(ar, None, None, FALSE, FALSE)
    ELSE LET head == Unwrap(self)[1]
             tail == Unwrap(self)[2]
         IN  IF head = tail
             THEN LET ii == into_inner(ar, head, tail)
                  IN  Res(ii.arena, None, ii.value, ii.panic, ii.dbg)
             ELSE IF ar[head].right = None
             THEN Res(ar, None, None, TRUE, FALSE)
             ELSE LET next == Unwrap(ar[head].right)
                      ar1 == [ar EXCEPT ![head].right = None]
                  IN  IF ar1[next].left = None
                      THEN Res(ar1, None, None, TRUE, FALSE)
                      ELSE LET other_head == Unwrap(ar1[next].left)
                               ar2 == [ar1 EXCEPT ![next].left = None]
                               ii == into_inner(ar2, head, other_head)
                           IN  Res(ii.arena, Some(<<next, tail>>), ii.value,
                                   ii.panic, ii.dbg)

\* pop_back that reads prev.right without taking it out of the slot.
pop_back_no_take(ar, self) ==
    IF self = None
    THEN Res(ar, None, None, FALSE, FALSE)
    ELSE LET head == Unwrap(self)[1]
             tail == Unwrap(self)[2]
         IN  IF head = tail
             THEN LET ii == into_inner(ar, head, tail)
                  IN  Res(ii.arena, None, ii.value, ii.panic, ii.dbg)
             ELSE IF ar[tail].left = None
             THEN Res(ar, None, None, TRUE, FALSE)
             ELSE LET prev == Unwrap(ar[tail].left)
                      ar1 == [ar EXCEPT ![tail].left = None]
                  IN  IF ar1[prev].right = None
                      THEN Res(ar1, None, None, TRUE, FALSE)
                      ELSE LET other_tail == Unwrap(ar1[prev].right)
                               ii == into_inner(ar1, tail, other_tail)
                           IN  Res(ii.arena, Some(<<head, prev>>), ii.value,
                                   ii.panic, ii.dbg)

\* pop_back with the body of pop_front pasted in.
pop_back_pasted(ar, self) == pop_front(ar, self)

pop_back(ar, self) ==
    IF self = None
    THEN Res(ar, None, None, FALSE, FALSE)
    ELSE LET head == Unwrap(self)[1]
             tail == Unwrap(self)[2]
         IN  IF head = tail
             THEN LET ii == into_inner(ar, head, tail)
                  IN  Res(ii.arena, None, ii.value, ii.panic, ii.dbg)
             ELSE IF ar[tail].left = None
             THEN Res(ar, None, None, TRUE, FALSE)
             ELSE LET prev == Unwrap(ar[tail].left)
                      ar1 == [ar EXCEPT ![tail].left = None]
                  IN  IF ar1[prev].right = None
                      THEN Res(ar1, None, None, TRUE, FALSE)
                      ELSE LET other_tail == Unwrap(ar1[prev].right)
                               ar2 == [ar1 EXCEPT ![prev].right = None]
                               ii == into_inner(ar2, tail, other_tail)
                           IN  Res(ii.arena, Some(<<head, prev>>), ii.value,
                                   ii.panic, ii.dbg)

\* The result of an operation on two lists.
Res2(ar, self, other, panic, dbg) ==
    [arena |-> ar, self |-> self, other |-> other, panic |-> panic, dbg |-> dbg]

\* append that drops other's chain when self is empty.
append_no_else(ar, self, other) ==
    IF other = None
    THEN Res2(ar, self, other, FALSE, FALSE)
    ELSE IF self # None
    THEN LET head == Unwrap(self)[1]
             mid_tail == Unwrap(self)[2]
             mid_head == Unwrap(other)[1]
             tail == Unwrap(other)[2]
             ar1 == [ar EXCEPT ![mid_tail].right = Some(mid_head)]
             ar2 == [ar1 EXCEPT ![mid_head].left = Some(mid_tail)]
         IN  Res2(ar2, Some(<<head, tail>>), None, FALSE, FALSE)
    ELSE Res2(ar, None, None, FALSE, FALSE)

\* append that writes the forward link of the splice only: the left link of
\* other's head is left as it was.
append_forward_only(ar, self, other) ==
    IF other = None
    THEN Res2(ar, self, other, FALSE, FALSE)
    ELSE IF self # None
    THEN LET head == Unwrap(self)[1]
             mid_tail == Unwrap(self)[2]
             mid_head == Unwrap(other)[1]
             tail == Unwrap(other)[2]
             ar1 == [ar EXCEPT ![mid_tail].right = Some(mid_head)]
         IN  Res2(ar1, Some(<<head, tail>>), None, FALSE, FALSE)
    ELSE Res2(ar, other, None, FALSE, FALSE)

\* append that also writes the left slot of self's former tail.
append_cut_left(ar, self, other) ==
    IF other = None
    THEN Res2(ar, self, other, FALSE, FALSE)
    ELSE IF self # None
    THEN LET head == Unwrap(self)[1]
             mid_tail == Unwrap(self)[2]
             mid_head == Unwrap(other)[1]
             tail == Unwrap(other)[2]
             ar1 == [ar EXCEPT ![mid_tail].right = Some(mid_head),
                               ![mid_tail].left = None]
             ar2 == [ar1 EXCEPT ![mid_head].left = Some(mid_tail)]
         IN  Res2(ar2, Some(<<head, tail>>), None, FALSE,
                  ar1[mid_head].left # None)
    ELSE Res2(ar, other, None, FALSE, FALSE)

append(ar, self, other) ==
    IF other = None
    THEN Res2(ar, self, other, FALSE, FALSE)
    ELSE IF self # None
    THEN LET head == Unwrap(self)[1]
             mid_tail == Unwrap(self)[2]
             mid_head == Unwrap(other)[1]
             tail == Unwrap(other)[2]
             ar1 == [ar EXCEPT ![mid_tail].right = Some(mid_head)]
             \* the cursor walks from mid_tail over the link just written
             target == ar1[mid_tail].right
         IN  IF target = None
             THEN Res2(ar1, None, None, TRUE, FALSE)
             ELSE LET slot == Unwrap(target)
                      right == ar1[slot].left
                      ar2 == [ar1 EXCEPT ![slot].left = Some(mid_tail)]
                  IN  Res2(ar2, Some(<<head, tail>>), None, FALSE, right # None)
    ELSE Res2(ar, other, None, FALSE, FALSE)

\* prepend with the body of append.
prepend_as_append(ar, self, other) == append(ar, self, other)

\* prepend without the swap: self and other keep what other.append(self)
\* left in them.
prepend_no_swap(ar, self, other) ==
    LET a == append(ar, other, self)
    IN  Res2(a.arena, a.other, a.self, a.panic, a.dbg)

\* other.append(self), then core::mem::swap(self, other): a.self is what
\* the call leaves in `other` and a.other what it leaves in `self`.
prepend(ar, self, other) ==
    LET a == append(ar, other, self)
    IN  Res2(a.arena, a.self, a.other, a.panic, a.dbg)

RECURSIVE split_off_loop_no_restore(_, _, _, _, _)
\* The loop of split_off returning None at once when a pop fails, without
\* putting the popped elements back.
split_off_loop_no_restore(ar, self, head, i, dbg) ==
    IF i = 0
    THEN Res(ar, head, Some(self), FALSE, dbg)
    ELSE LET p == pop_front(ar, self)
         IN  IF p.panic \/ p.ret = None
             THEN Res(p.arena, p.self, None, p.panic, dbg \/ p.dbg)
             ELSE LET b == push_back(p.arena, head, Unwrap(p.ret))
                  IN  split_off_loop_no_restore(b.arena, p.self, b.self, i - 1,
                                                dbg \/ p.dbg)

RECURSIVE split_off_loop(_, _, _, _, _)
\* The loop of split_off with i iterations left: `head` is the local list
\* that collects the popped elements.  When the loop ends the two lists are
\* swapped, so self keeps `head` and the former self is returned.
split_off_loop(ar, self, head, i, dbg) ==
    IF i = 0
    THEN Res(ar, head, Some(self), FALSE, dbg)
    ELSE LET p == pop_front(ar, self)
         IN  IF p.panic
             THEN Res(p.arena, p.self, None, TRUE, dbg \/ p.dbg)
             ELSE IF p.ret = None
             THEN \* restore the popped elements: self.prepend(&mut head)
                  LET r == prepend(p.arena, p.self, head)
                  IN  Res(r.arena, r.self, None, r.panic, dbg \/ p.dbg \/ r.dbg)
             ELSE LET b == push_back(p.arena, head, Unwrap(p.ret))
                  IN  split_off_loop(b.arena, p.self, b.self, i - 1,
                                     dbg \/ p.dbg)

\* split_off without the final swap: self keeps the tail part and the head
\* part is returned.
split_off_no_swap(ar, self, at) ==
    LET r == split_off_loop(ar, self, None, at, FALSE)
    IN  IF r.ret = None THEN r
        ELSE Res(r.arena, Unwrap(r.ret), Some(r.self), r.panic, r.dbg)

\* split_off that takes at = len for out of range.
split_off_strict(ar, self, at) ==
    LET r == split_off_loop(ar, self, None, at, FALSE)
    IN  IF r.ret = Some(None)
        THEN Res(r.arena, r.self, None, r.panic, r.dbg)
        ELSE r

\* split_off that looks at the length first and returns None for at > len
\* without popping.
split_off_checked(ar, self, at) ==
    LET r == split_off_loop(ar, self, None, at, FALSE)
    IN  IF r.ret = None THEN Res(ar, self, None, FALSE, FALSE) ELSE r

\* split_off that returns the first `at` elements and keeps the rest.
split_off_head(ar, self, at) ==
    LET r == split_off_loop(ar, self, None, at, FALSE)
    IN  IF r.ret = None THEN r
        ELSE Res(r.arena, Unwrap(r.ret), Some(r.self), r.panic, r.dbg)

split_off(ar, self, at) == split_off_loop(ar, self, None, at, FALSE)

RECURSIVE clear_loop(_, _, _)
\* while self.pop_back(token).is_some() {}
clear_loop(ar, self, dbg) ==
    LET p == pop_back(ar, self)
    IN  IF p.panic \/ p.ret = None
        THEN Res(p.arena, p.self, None, p.panic, dbg \/ p.dbg)
        ELSE clear_loop(p.arena, p.self, dbg \/ p.dbg)

\* clear with `if` for `while`: one pop_back.
clear_once(ar, self) ==
    LET p == pop_back(ar, self)
    IN  Res(p.arena, p.self, None, p.panic, p.dbg)

clear(ar, self) == clear_loop(ar, self, FALSE)

RECURSIVE from_iter_loop(_, _, _)
from_iter_loop(ar, list, iter) ==
    IF iter = <<>>
    THEN Res(ar, list, None, FALSE, FALSE)
    ELSE LET b == push_back(ar, list, Head(iter))
         IN  from_iter_loop(b.arena, b.self, Tail(iter))

RECURSIVE from_iter_front_loop(_, _, _)
from_iter_front_loop(ar, list, iter) ==
    IF iter = <<>>
    THEN Res(ar, list, None, FALSE, FALSE)
    ELSE LET b == push_front(ar, list, Head(iter))
         IN  from_iter_front_loop(b.arena, b.self, Tail(iter))

\* from_iter pushing every item at the front.
from_iter_front(iter, ar) == from_iter_front_loop(ar, None, iter)

\* LinkedList::new, then push_back of every item.
from_iter(iter, ar) == from_iter_loop(ar, None, iter)

is_empty(self) == self = None

(* ---------------------------------------------------------------- Cursor *)

\* A read cursor is its `node` field: None (off-list) or Some(node).
new_front(self) == IF self = None THEN None ELSE Some(Unwrap(self)[1])

new_back(self) == IF self = None THEN None ELSE Some(Unwrap(self)[2])

peek_right_node(ar, c) == IF c = None THEN None ELSE ar[Unwrap(c)].right

peek_left_node(ar, c) == IF c = None THEN None ELSE ar[Unwrap(c)].left

\* The cursor after the move and the move's result.
move_right(ar, c) ==
    LET node == peek_right_node(ar, c)
    IN  IF node # None THEN [node |-> node, ok |-> TRUE]
                       ELSE [node |-> None, ok |-> FALSE]

\* move_left that stays where it is when there is no left neighbour.
move_left_stay(ar, c) ==
    LET node == peek_left_node(ar, c)
    IN  IF node # None THEN [node |-> node, ok |-> TRUE]
                       ELSE [node |-> c, ok |-> FALSE]

move_left(ar, c) ==
    LET node == peek_left_node(ar, c)
    IN  IF node # None THEN [node |-> node, ok |-> TRUE]
                       ELSE [node |-> None, ok |-> FALSE]

current(ar, c) == IF c = None THEN None ELSE ar[Unwrap(c)].value

peek_right(ar, c) == current(ar, peek_right_node(ar, c))

\* peek_left that reads the node under the cursor.
peek_left_here(ar, c) == current(ar, c)

peek_left(ar, c) == current(ar, peek_left_node(ar, c))

\* next() that does not move the inner cursor.
iter_next_stuck(ar, it) == [item |-> current(ar, it), inner |-> it]

\* Iter::next: the item under the cursor, and the iterator moved right.
iter_next(ar, it) == [item |-> current(ar, it), inner |-> move_right(ar, it).node]

RECURSIVE iter_collect_from(_, _, _)
\* The items next() yields until its first None.  `fuel` stops the walk of
\* a cyclic chain, on which the code would not return: the walk then yields
\* more items than the arena has slots.
iter_collect_from(ar, it, fuel) ==
    LET n == iter_next(ar, it)
    IN  IF n.item = None \/ fuel = 0
        THEN <<>>
        ELSE <<Unwrap(n.item)>> \o iter_collect_from(ar, n.inner, fuel - 1)

\* list.iter(token).collect()
iter_collect(ar, self) == iter_collect_from(ar, new_front(self), Len(ar) + 1)

\* list.iter(token).count()
len(ar, self) == Len(iter_collect(ar, self))

RECURSIVE walk_left_from(_, _, _)
\* The values seen by a cursor that starts on c and moves left until it is
\* off the list.
walk_left_from(ar, c, fuel) ==
    LET item == current(ar, c)
    IN  IF item = None \/ fuel = 0
        THEN <<>>
        ELSE <<Unwrap(item)>> \o walk_left_from(ar, move_left(ar, c).node, fuel - 1)

\* cursor_back, then current and move_left until off the list.
backward(ar, self) == walk_left_from(ar, new_back(self), Len(ar) + 1)

(* ------------------------------------------------------------- the state *)

\* The forward contents of every list.
Contents(ar, ls) == [l \in ListIds |-> iter_collect(ar, ls[l])]

Min(a, b) == IF a < b THEN a ELSE b

\* The list code never inspects a value (T carries no trait bound), so the
\* value pushed is the serial number of the allocation: every pushed value is
\* distinct and the place it ends up in is observable.
NextValue == Len(arena) + 1

\* `last` records the latest call: its name, the list it was called on (l),
\* the second list it involved (m), its argument and result, and the forward
\* contents of every list before the call.
Call(op, l, m, arg, ret) ==
    [op |-> op, l |-> l, m |-> m, arg |-> arg, ret |-> ret,
     pre |-> Contents(arena, lists)]

\* `run` follows a run of pushes at one end of a list that was empty,
\* followed by pops at one end: the values pushed and the results popped.
Idle == [l |-> "l1", push |-> "none", pushed |-> <<>>, pop |-> "none",
         popped |-> <<>>]

TrackPush(l, end, v) ==
    IF lists[l] = None
    THEN [l |-> l, push |-> end, pushed |-> <<v>>, pop |-> "none",
          popped |-> <<>>]
    ELSE IF run.l = l /\ run.push = end /\ run.pop = "none"
    THEN [run EXCEPT !.pushed = Append(@, v)]
    ELSE Idle

TrackPop(l, end, ret) ==
    IF /\ run.push # "none"
       /\ run.l = l
       /\ run.pop \in {"none", end}
       /\ Len(run.popped) <= Len(run.pushed)
    THEN [run EXCEPT !.pop = end, !.popped = Append(@, ret)]
    ELSE Idle

\* No cursor or iterator is alive.  `cursor` holds the one live Cursor or
\* Iter: the list it borrows (l), its `node` field, its latest call (op),
\* `node` before that call (from), the call's result (ok for the moves, ret
\* for the reads and next()), the items next() has yielded, how many times
\* next() has returned None, and (full) the list and items of the latest
\* iterator that was dropped after it ran to its end.
NoCursor ==
    [kind |-> "none", l |-> "l1", node |-> None, op |-> "none", from |-> None,
     ok |-> FALSE, ret |-> None, yielded |-> <<>>, nones |-> 0, full |-> None]

\* A holder of the token that has no access under way.
NoAccess == [op |-> "none", l |-> "l1"]

\* Two lists of the variant of src/src/arena.rs built with LinkedList::new
\* over an empty typed_arena::Arena, with the record of the latest call made
\* on them and on the lists of src/src/lib.rs: its name, what it returned
\* in either variant, and whether the variant has panicked.
plain_new ==
    [arena |-> <<>>, lists |-> [l \in {"l1", "l2"} |-> <<>>],
     panicked |-> FALSE, op |-> "new", ret |-> <<>>, lib_ret |-> <<>>]

\* LinkedList::new of src/src/arena_option.rs over an empty arena, with the
\* record of the latest call on the list: its name, its result, the
\* boundary pair and the items the list held before it, the items it
\* should hold now, and whether a call has panicked.
opt_new ==
    [arena |-> <<>>, head_tail |-> <<>>, op |-> "new", ret |-> <<>>,
     from |-> <<>>, pre |-> <<>>, items |-> <<>>, panicked |-> FALSE]

\* LinkedList::new of the Rc/RefCell list (src/crates/first), with the heap
\* of its nodes, each with its strong count, and the record of the latest
\* call: its name, its result, the strong counts Rc::try_unwrap has found,
\* the members before the call, and whether a call has panicked.
first_new ==
    [len |-> 0, head_tail |-> <<>>, heap |-> <<>>, op |-> "new",
     ret |-> <<>>, unwrapped |-> <<>>, pre |-> <<>>, panicked |-> FALSE]

\* No double-ended iterator is alive.  `deiter` holds the one live Iter of
\* src/lists/fifth: the list it borrows (l), its head_tail field, its
\* latest call (op) and what that returned (ret), the items next() has
\* yielded (front), the items next_back() has yielded (back), and how many
\* calls have returned None.
NoIter ==
    [kind |-> "none", l |-> "l1", head_tail |-> <<>>, op |-> "none",
     ret |-> <<>>, front |-> <<>>, back |-> <<>>, nones |-> 0,
     panicked |-> FALSE]

\* LinkedList::new of the slot-map list (src/lists/third), with the record
\* of the latest call on it: its name, its result, whether it panicked, and
\* the items the list held before it.
sm_new ==
    [len |-> 0, nodes |-> <<>>, head_tail |-> None,
     op |-> "new", ret |-> None, panicked |-> FALSE, pre |-> <<>>]

Init ==
    /\ cursor = NoCursor
    /\ third = sm_new
    /\ plain = plain_new
    /\ opt = opt_new
    /\ first = first_new
    /\ deiter = NoIter
    /\ token = [h \in Holders |-> NoAccess]
    /\ arena = <<>>
    /\ lists = [l \in ListIds |-> None]
    /\ last = [op |-> "new", l |-> "l1", m |-> "l2", arg |-> 0, ret |-> None,
               pre |-> [l \in ListIds |-> <<>>]]
    /\ run = Idle
    /\ panicked = FALSE
    /\ dbg_failed = FALSE

\* A call on one list l with result r.
Commit1(l, r) ==
    /\ arena' = r.arena
    /\ lists' = [lists EXCEPT ![l] = r.self]
    /\ panicked' = r.panic
    /\ dbg_failed' = (dbg_failed \/ r.dbg)
    /\ UNCHANGED <<cursor, rest>>

\* A call on l that also takes m, with result r.
Commit2(l, m, r) ==
    /\ arena' = r.arena
    /\ lists' = [lists EXCEPT ![l] = r.self, ![m] = r.other]
    /\ panicked' = r.panic
    /\ dbg_failed' = (dbg_failed \/ r.dbg)
    /\ UNCHANGED <<cursor, rest>>

PushFront(l) ==
    /\ ~panicked
    /\ Len(arena) < MaxNodes
    /\ Commit1(l, push_front(arena, lists[l], NextValue))
    /\ last' = Call("push_front", l, l, NextValue, None)
    /\ run' = TrackPush(l, "front", NextValue)

PushBack(l) ==
    /\ ~panicked
    /\ Len(arena) < MaxNodes
    /\ Commit1(l, push_back(arena, lists[l], NextValue))
    /\ last' = Call("push_back", l, l, NextValue, None)
    /\ run' = TrackPush(l, "back", NextValue)

PopFront(l) ==
    /\ ~panicked
    /\ LET r == pop_front(arena, lists[l])
       IN  /\ Commit1(l, r)
           /\ last' = Call("pop_front", l, l, 0, r.ret)
           /\ run' = TrackPop(l, "front", r.ret)

PopBack(l) ==
    /\ ~panicked
    /\ LET r == pop_back(arena, lists[l])
       IN  /\ Commit1(l, r)
           /\ last' = Call("pop_back", l, l, 0, r.ret)
           /\ run' = TrackPop(l, "back", r.ret)

\* l.append(&mut m)
Append_(l, m) ==
    /\ ~panicked
    /\ l # m
    /\ Commit2(l, m, append(arena, lists[l], lists[m]))
    /\ last' = Call("append", l, m, 0, None)
    /\ run' = Idle

\* l.prepend(&mut m)
Prepend(l, m) ==
    /\ ~panicked
    /\ l # m
    /\ Commit2(l, m, prepend(arena, lists[l], lists[m]))
    /\ last' = Call("prepend", l, m, 0, None)
    /\ run' = Idle

\* if let Some(list) = l.split_off(at) { m = list }, with m an empty list.
SplitOff(l, m, at) ==
    /\ ~panicked
    /\ l # m
    /\ lists[m] = None
    /\ Len(arena) + Min(at, len(arena, lists[l])) <= MaxNodes
    /\ LET r == split_off(arena, lists[l], at)
       IN  /\ arena' = r.arena
           /\ lists' = [lists EXCEPT ![l] = r.self,
                                     ![m] = IF r.ret = None THEN @
                                            ELSE Unwrap(r.ret)]
           /\ panicked' = r.panic
           /\ dbg_failed' = (dbg_failed \/ r.dbg)
           /\ last' = Call("split_off", l, m, at, r.ret)
    /\ run' = Idle
    /\ UNCHANGED <<cursor, rest>>

Clear(l) ==
    /\ ~panicked
    /\ Commit1(l, clear(arena, lists[l]))
    /\ last' = Call("clear", l, l, 0, None)
    /\ run' = Idle

\* m = LinkedList::from_iter(l.iter(token).collect(), arena), with m an
\* empty list.
FromIter(l, m) ==
    /\ ~panicked
    /\ l # m
    /\ lists[m] = None
    /\ Len(arena) + len(arena, lists[l]) <= MaxNodes
    /\ Commit1(m, from_iter(iter_collect(arena, lists[l]), arena))
    /\ last' = Call("from_iter", l, m, 0, None)
    /\ run' = Idle

Next ==
    \/ \E l \in ListIds : PushFront(l)
    \/ \E l \in ListIds : PushBack(l)
    \/ \E l \in ListIds : PopFront(l)
    \/ \E l \in ListIds : PopBack(l)
    \/ \E l, m \in ListIds : Append_(l, m)
    \/ \E l, m \in ListIds : Prepend(l, m)
    \/ \E l, m \in ListIds, at \in 0..MaxAt : SplitOff(l, m, at)
    \/ \E l \in ListIds : Clear(l)
    \/ \E l, m \in ListIds : FromIter(l, m)

Spec == Init /\ [][Next]_vars

(* ---------------------------------------------------------------- claims *)

RECURSIVE Reverse(_)
Reverse(s) == IF s = <<>> THEN <<>> ELSE Append(Reverse(Tail(s)), Head(s))

\* C1: pushing at one end and popping at the other is FIFO: after n pushes
\* at one end of an empty list, the i-th of the following pops at the other
\* end (i <= n) returns the i-th value pushed.
C1_Fifo ==
    (run.push # "none" /\ run.pop # "none" /\ run.pop # run.push) =>
        \A i \in 1..Len(run.popped) :
            i <= Len(run.pushed) => run.popped[i] = Some(run.pushed[i])

\* Three values pushed at the back and all three popped at the front.
C1_Witness ==
    /\ run.push = "back" /\ run.pop = "front"
    /\ Len(run.pushed) = 3 /\ Len(run.popped) = 3

\* C2: pushing and popping at the same end is LIFO: after n pushes at one
\* end of an empty list, the i-th of the following pops at that end (i <= n)
\* returns the (n+1-i)-th value pushed, and the (n+1)-th pop returns None.
C2_Lifo ==
    (run.push # "none" /\ run.pop = run.push) =>
        LET n == Len(run.pushed)
        IN  \A i \in 1..Len(run.popped) :
                /\ i <= n => run.popped[i] = Some(run.pushed[n + 1 - i])
                /\ i = n + 1 => run.popped[i] = None

\* Two values pushed at the back, popped at the back, and a third pop made.
C2_Witness ==
    /\ run.push = "back" /\ run.pop = "back"
    /\ Len(run.pushed) = 2 /\ Len(run.popped) = 3

\* C3: after A.append(B) with A and B both non-empty, forward traversal of A
\* yields A's former elements followed by B's, backward traversal from the
\* tail yields the reverse, len(A) is the sum of the former lengths and B is
\* empty.
C3_Append ==
    (last.op = "append" /\ last.pre[last.l] # <<>> /\ last.pre[last.m] # <<>>) =>
        LET both == last.pre[last.l] \o last.pre[last.m]
        IN  /\ iter_collect(arena, lists[last.l]) = both
            /\ backward(arena, lists[last.l]) = Reverse(both)
            /\ len(arena, lists[last.l]) =
                   Len(last.pre[last.l]) + Len(last.pre[last.m])
            /\ is_empty(lists[last.m])

\* An append of a two-element list onto a two-element list.
C3_Witness ==
    /\ last.op = "append"
    /\ Len(last.pre[last.l]) = 2 /\ Len(last.pre[last.m]) = 2

\* C4: append with an empty operand.  If other is empty the call leaves
\* self's boundary pair and every node as they were; if self is empty and
\* other is not, self takes over other's boundary pair with every node as it
\* was, so it holds other's chain in the same order; other is empty after
\* the call in both cases.
C4_AppendEmpty ==
    [][last'.op = "append" =>
         LET l == last'.l
             m == last'.m
         IN  /\ lists[m] = None =>
                    /\ arena' = arena
                    /\ lists'[l] = lists[l]
                    /\ is_empty(lists'[m])
             /\ (lists[l] = None /\ lists[m] # None) =>
                    /\ arena' = arena
                    /\ lists'[l] = lists[m]
                    /\ iter_collect(arena', lists'[l]) =
                           iter_collect(arena, lists[m])
                    /\ backward(arena', lists'[l]) = backward(arena, lists[m])
                    /\ is_empty(lists'[m])]_vars

\* An append of a two-element list onto an empty list.
C4_Witness ==
    /\ last.op = "append"
    /\ last.pre[last.l] = <<>> /\ Len(last.pre[last.m]) = 2

\* C5: A.prepend(B) leaves A holding B's former elements followed by A's
\* former elements (backward traversal the reverse), leaves B empty, and has
\* the effect of B.append(A) followed by exchanging the two lists.
C5_Prepend ==
    [][last'.op = "prepend" =>
         LET l == last'.l
             m == last'.m
             both == iter_collect(arena, lists[m]) \o iter_collect(arena, lists[l])
             a == append(arena, lists[m], lists[l])
         IN  /\ iter_collect(arena', lists'[l]) = both
             /\ backward(arena', lists'[l]) = Reverse(both)
             /\ is_empty(lists'[m])
             /\ arena' = a.arena
             /\ lists'[l] = a.self
             /\ lists'[m] = a.other]_vars

\* A prepend of a two-element list to a two-element list.
C5_Witness ==
    /\ last.op = "prepend"
    /\ Len(last.pre[last.l]) = 2 /\ Len(last.pre[last.m]) = 2

\* C6: for a list of length n and at <= n, split_off(at) returns a list
\* holding the elements from index at onward in their order and leaves the
\* first at elements in self in their order: nothing is lost or duplicated.
C6_SplitOff ==
    (last.op = "split_off" /\ last.arg <= Len(last.pre[last.l])) =>
        LET old == last.pre[last.l]
            at == last.arg
            kept == iter_collect(arena, lists[last.l])
        IN  /\ last.ret # None
            /\ LET returned == iter_collect(arena, Unwrap(last.ret))
                IN  /\ returned = SubSeq(old, at + 1, Len(old))
                    /\ kept = SubSeq(old, 1, at)
                    /\ kept \o returned = old

\* A three-element list split at 1.
C6_Witness ==
    /\ last.op = "split_off"
    /\ Len(last.pre[last.l]) = 3 /\ last.arg = 1

\* C7: for a list of length n and at > n, split_off(at) returns None and
\* self holds the same values in the same order as before, backward
\* traversal from the tail being the reverse of forward traversal.
C7_SplitOffOutOfRange ==
    (last.op = "split_off" /\ last.arg > Len(last.pre[last.l])) =>
        /\ last.ret = None
        /\ iter_collect(arena, lists[last.l]) = last.pre[last.l]
        /\ backward(arena, lists[last.l]) = Reverse(last.pre[last.l])

\* A two-element list split at 3.
C7_Witness ==
    /\ last.op = "split_off"
    /\ Len(last.pre[last.l]) = 2 /\ last.arg = 3

\* The results of pushing v at one end of a list and popping at one end.
PushPop(ar, self, v) ==
    LET f == push_front(ar, self, v)
        b == push_back(ar, self, v)
    IN  <<pop_front(f.arena, f.self), pop_back(f.arena, f.self),
          pop_front(b.arena, b.self), pop_back(b.arena, b.self)>>

\* C8: pop_front and pop_back on an empty list return None without
\* panicking, leave the list empty and every arena node as it was, and the
\* list remains usable: a following push then pop returns the pushed value.
C8_PopEmpty ==
    [][(last'.op \in {"pop_front", "pop_back"} /\ lists[last'.l] = None) =>
         /\ last'.ret = None
         /\ ~panicked'
         /\ is_empty(lists'[last'.l])
         /\ arena' = arena
         /\ LET v == Len(arena') + 1
                 pp == PushPop(arena', lists'[last'.l], v)
             IN  \A i \in 1..Len(pp) : ~pp[i].panic /\ pp[i].ret = Some(v)]_vars

\* A pop_front on a list that is empty, in an arena that holds nodes.
C8_Witness ==
    /\ last.op = "pop_front"
    /\ last.pre[last.l] = <<>>
    /\ Len(arena) >= 2

\* What a list shows after push_back(v1) and push_front(v2): its forward
\* and backward traversal, its length, and what pop_front and pop_back
\* return.
Refill(ar, self, v1, v2) ==
    LET b == push_back(ar, self, v1)
        f == push_front(b.arena, b.self, v2)
    IN  [forward |-> iter_collect(f.arena, f.self),
         backward |-> backward(f.arena, f.self),
         len |-> len(f.arena, f.self),
         front |-> pop_front(f.arena, f.self).ret,
         back |-> pop_back(f.arena, f.self).ret]

\* C9: after clear(), len() is 0, is_empty() is true and iteration yields
\* nothing; refilled, the list shows what a freshly created list shows.
C9_Clear ==
    last.op = "clear" =>
        /\ len(arena, lists[last.l]) = 0
        /\ is_empty(lists[last.l])
        /\ iter_collect(arena, lists[last.l]) = <<>>
        /\ backward(arena, lists[last.l]) = <<>>
        /\ LET v1 == Len(arena) + 1
                v2 == Len(arena) + 2
            IN  Refill(arena, lists[last.l], v1, v2) = Refill(<<>>, None, v1, v2)

\* A clear of a list of three elements.
C9_Witness ==
    /\ last.op = "clear"
    /\ Len(last.pre[last.l]) = 3

\* C10: a list rebuilt by from_iter from the items iter() yields has the
\* forward traversal, backward traversal and len of the original.
C10_RoundTrip ==
    last.op = "from_iter" =>
        /\ iter_collect(arena, lists[last.m]) = iter_collect(arena, lists[last.l])
        /\ backward(arena, lists[last.m]) = backward(arena, lists[last.l])
        /\ len(arena, lists[last.m]) = len(arena, lists[last.l])

\* A round trip of a two-element list.
C10_Witness ==
    /\ last.op = "from_iter"
    /\ Len(last.pre[last.l]) = 2

RECURSIVE nodes_right_from(_, _, _)
\* The nodes a cursor visits that starts on c and moves right until it is
\* off the list.
nodes_right_from(ar, c, fuel) ==
    IF c = None \/ fuel = 0
    THEN <<>>
    ELSE <<Unwrap(c)>> \o nodes_right_from(ar, move_right(ar, c).node, fuel - 1)

RECURSIVE nodes_left_from(_, _, _)
nodes_left_from(ar, c, fuel) ==
    IF c = None \/ fuel = 0
    THEN <<>>
    ELSE <<Unwrap(c)>> \o nodes_left_from(ar, move_left(ar, c).node, fuel - 1)

\* The nodes reached by walking right from the head / left from the tail.
NodesRight(ar, self) == nodes_right_from(ar, new_front(self), Len(ar) + 1)

NodesLeft(ar, self) == nodes_left_from(ar, new_back(self), Len(ar) + 1)

\* C11: for every list, the number of nodes reached by walking right from
\* the head equals the number reached by walking left from the tail, and
\* both equal len().
C11_Counts ==
    \A l \in ListIds :
        /\ Len(NodesRight(arena, lists[l])) = Len(NodesLeft(arena, lists[l]))
        /\ Len(NodesRight(arena, lists[l])) = len(arena, lists[l])

\* A list of three nodes built by pushing at the front of a list that a
\* split_off or an append has produced.
C11_Witness ==
    /\ last.op = "push_front"
    /\ len(arena, lists[last.l]) = 3
    /\ \E i \in 1..Len(arena) : arena[i].value = None

\* C12: links are symmetric.  From any node of a list that has a right
\* neighbour, move_right then move_left is back on the node and current()
\* yields its value; likewise move_left then move_right from any node with
\* a left neighbour; and a.right denotes b exactly when b.left denotes a.
C12_Symmetric ==
    /\ \A l \in ListIds :
         \A i \in 1..Len(NodesRight(arena, lists[l])) :
            LET c == Some(NodesRight(arena, lists[l])[i])
                r == move_right(arena, c)
                f == move_left(arena, c)
            IN  /\ r.ok => /\ move_left(arena, r.node) = [node |-> c, ok |-> TRUE]
                           /\ current(arena, move_left(arena, r.node).node) =
                                  current(arena, c)
                /\ f.ok => /\ move_right(arena, f.node) = [node |-> c, ok |-> TRUE]
                           /\ current(arena, move_right(arena, f.node).node) =
                                  current(arena, c)
    /\ \A a, b \in 1..Len(arena) :
         arena[a].right = Some(b) <=> arena[b].left = Some(a)

\* A list of three nodes just spliced together by append.
C12_Witness ==
    /\ last.op = "append"
    /\ last.pre[last.l] # <<>> /\ last.pre[last.m] # <<>>
    /\ Len(NodesRight(arena, lists[last.l])) = 3

(* ------------------------------------------------- cursors and iterators *)

\* A Cursor or an Iter borrows its list for as long as it lives, so a list
\* is relinked only while no cursor is alive.  These steps are the list
\* operations without the record of the call in `last` and `run`.
Quiet1(l, r) ==
    /\ ~panicked
    /\ cursor.kind = "none"
    /\ arena' = r.arena
    /\ lists' = [lists EXCEPT ![l] = r.self]
    /\ panicked' = r.panic
    /\ dbg_failed' = (dbg_failed \/ r.dbg)
    /\ cursor' = NoCursor
    /\ UNCHANGED <<last, run, rest>>

QuietPushFront(l) ==
    /\ Len(arena) < MaxCursorNodes
    /\ Quiet1(l, push_front(arena, lists[l], NextValue))

QuietPushBack(l) ==
    /\ Len(arena) < MaxCursorNodes
    /\ Quiet1(l, push_back(arena, lists[l], NextValue))

QuietPopFront(l) == Quiet1(l, pop_front(arena, lists[l]))

QuietPopBack(l) == Quiet1(l, pop_back(arena, lists[l]))

QuietAppend(l, m) ==
    /\ ~panicked
    /\ cursor.kind = "none"
    /\ l # m
    /\ LET r == append(arena, lists[l], lists[m])
       IN  /\ arena' = r.arena
           /\ lists' = [lists EXCEPT ![l] = r.self, ![m] = r.other]
           /\ panicked' = r.panic
           /\ dbg_failed' = (dbg_failed \/ r.dbg)
    /\ cursor' = NoCursor
    /\ UNCHANGED <<last, run, rest>>

\* A borrow that takes every right link it reads out of its slot, as
\* borrow_mut with Option::take would.
borrowed_take(ar) == [n \in 1..Len(ar) |-> [ar[n] EXCEPT !.right = None]]

\* The arena after a method that has &self and &GhostToken has run:
\* GhostCell::borrow hands out &Node, through which the links are read with
\* as_deref and the value with as_ref, and nothing is written.
borrowed(ar) == ar

\* list.len(token) and list.is_empty(): the result is kept in `cursor`.
LenCall(l) ==
    /\ ~panicked
    /\ cursor.kind = "none"
    /\ cursor' = [NoCursor EXCEPT !.op = "len", !.l = l,
                                  !.ret = Some(len(arena, lists[l])),
                                  !.full = cursor.full]
    /\ arena' = borrowed(arena)
    /\ UNCHANGED <<lists, last, run, panicked, dbg_failed, rest>>

IsEmptyCall(l) ==
    /\ ~panicked
    /\ cursor.kind = "none"
    /\ cursor' = [NoCursor EXCEPT !.op = "is_empty", !.l = l,
                                  !.ok = is_empty(lists[l]),
                                  !.full = cursor.full]
    /\ UNCHANGED <<heap, rest>>

\* A cursor or iterator of the given kind is built on list l at `node`.
Borrow(kind, l, node, op) ==
    /\ ~panicked
    /\ cursor.kind = "none"
    /\ cursor' = [NoCursor EXCEPT !.kind = kind, !.l = l, !.node = node,
                                  !.op = op, !.full = cursor.full]
    /\ arena' = borrowed(arena)
    /\ UNCHANGED <<lists, last, run, panicked, dbg_failed, rest>>

CursorFront(l) == Borrow("Cursor", l, new_front(lists[l]), "cursor_front")

CursorBack(l) == Borrow("Cursor", l, new_back(lists[l]), "cursor_back")

IterNew(l) == Borrow("Iter", l, new_front(lists[l]), "iter")

\* A call on the live read cursor: its new `node` and its result.
CursorCall(op, node, ok, ret) ==
    /\ cursor.kind = "Cursor"
    /\ cursor' = [cursor EXCEPT !.op = op, !.from = cursor.node,
                                !.node = node, !.ok = ok, !.ret = ret]
    /\ arena' = borrowed(arena)
    /\ UNCHANGED <<lists, last, run, panicked, dbg_failed, rest>>

MoveRight ==
    LET r == move_right(arena, cursor.node)
    IN  CursorCall("move_right", r.node, r.ok, None)

MoveLeft ==
    LET r == move_left(arena, cursor.node)
    IN  CursorCall("move_left", r.node, r.ok, None)

\* current, peek_right and peek_left take &self: `node` is not written.
Current ==
    CursorCall("current", cursor.node, FALSE, current(arena, cursor.node))

PeekRight ==
    CursorCall("peek_right", cursor.node, FALSE, peek_right(arena, cursor.node))

PeekLeft ==
    CursorCall("peek_left", cursor.node, FALSE, peek_left(arena, cursor.node))

IterNext ==
    /\ cursor.kind = "Iter"
    /\ cursor.nones < MaxNones
    /\ Len(cursor.yielded) <= MaxCursorNodes
    /\ LET n == iter_next(arena, cursor.node)
       IN  cursor' = [cursor EXCEPT
                        !.op = "next", !.from = cursor.node,
                        !.node = n.inner, !.ret = n.item,
                        !.yielded = IF n.item = None THEN @
                                    ELSE Append(@, Unwrap(n.item)),
                        !.nones = IF n.item = None THEN @ + 1 ELSE @]
    /\ arena' = borrowed(arena)
    /\ UNCHANGED <<lists, last, run, panicked, dbg_failed, rest>>

\* The cursor or iterator goes out of scope.
DropCursor ==
    /\ cursor.kind # "none"
    /\ cursor' = [NoCursor EXCEPT
                    !.full = IF cursor.kind = "Iter" /\ cursor.nones > 0
                             THEN Some(<<cursor.l, cursor.yielded>>)
                             ELSE cursor.full]
    /\ UNCHANGED <<heap, rest>>

NextCursor ==
    \/ \E l \in ListIds : QuietPushFront(l)
    \/ \E l \in ListIds : QuietPushBack(l)
    \/ \E l \in ListIds : QuietPopFront(l)
    \/ \E l \in ListIds : QuietPopBack(l)
    \/ \E l, m \in ListIds : QuietAppend(l, m)
    \/ \E l \in ListIds : CursorFront(l)
    \/ \E l \in ListIds : CursorBack(l)
    \/ \E l \in ListIds : IterNew(l)
    \/ \E l \in ListIds : LenCall(l)
    \/ \E l \in ListIds : IsEmptyCall(l)
    \/ MoveRight
    \/ MoveLeft
    \/ Current
    \/ PeekRight
    \/ PeekLeft
    \/ IterNext
    \/ DropCursor

SpecCursor == Init /\ [][NextCursor]_vars

\* The nodes of the list the live cursor borrows, head to tail, and their
\* values.
CursorNodes == NodesRight(arena, lists[cursor.l])

CursorValues == [i \in 1..Len(CursorNodes) |-> arena[CursorNodes[i]].value]

\* The place of node c in the borrowed list, 0 when c is off the list.
Place(c) ==
    IF c # None /\ \E i \in 1..Len(CursorNodes) : CursorNodes[i] = Unwrap(c)
    THEN CHOOSE i \in 1..Len(CursorNodes) : CursorNodes[i] = Unwrap(c)
    ELSE 0

\* The value at place i, absent when i is not a place of the list.
ValueAt(i) == IF i \in 1..Len(CursorNodes) THEN CursorValues[i] ELSE None

\* C13: a forward iterator yields the elements of its list head to tail,
\* each once; once next() has returned None the items yielded are the whole
\* list and no later call adds one; and an iterator built after another
\* one ran to its end over the same unmodified list yields the same items.
C13_Iter ==
    cursor.kind = "Iter" =>
        LET n == Len(cursor.yielded)
        IN  /\ n <= Len(CursorValues)
            /\ \A i \in 1..n : Some(cursor.yielded[i]) = CursorValues[i]
            /\ cursor.nones > 0 => n = Len(CursorValues)
            /\ (cursor.nones > 0 /\ cursor.op = "next") => cursor.ret = None
            /\ (/\ cursor.nones > 0
                /\ cursor.full # None
                /\ Unwrap(cursor.full)[1] = cursor.l)
               => cursor.yielded = Unwrap(cursor.full)[2]

\* A second iterator over a two-element list has been called until it
\* returned None MaxNones times, after a first one did the same.
C13_Witness ==
    /\ cursor.kind = "Iter"
    /\ cursor.nones = MaxNones
    /\ Len(cursor.yielded) = 2
    /\ cursor.full = Some(<<cursor.l, cursor.yielded>>)

\* C14: current(), peek_left() and peek_right() of a read cursor leave its
\* position as it was and return the value of the node under the cursor,
\* left of it and right of it; peek_left() is absent on the head,
\* peek_right() on the tail, and all three off the list or on an empty
\* list.
C14_Peek ==
    cursor.kind = "Cursor" =>
        LET p == Place(cursor.from)
        IN  /\ cursor.op \in {"current", "peek_left", "peek_right"}
               => cursor.node = cursor.from
            /\ cursor.op = "current" => cursor.ret = ValueAt(p)
            /\ cursor.op = "peek_left" =>
                   cursor.ret = IF p = 0 THEN None ELSE ValueAt(p - 1)
            /\ cursor.op = "peek_right" =>
                   cursor.ret = IF p = 0 THEN None ELSE ValueAt(p + 1)

\* peek_left() on the middle node of a three-element list.
C14_Witness ==
    /\ cursor.kind = "Cursor"
    /\ cursor.op = "peek_left"
    /\ cursor.ret # None
    /\ peek_right(arena, cursor.node) # None

\* C15: move_right() on the tail and move_left() on the head return false
\* and leave the cursor off the list; off the list current() is absent and
\* both moves return false and stay off the list; a move from a node with a
\* neighbour on that side returns true and lands on the neighbour.
C15_Move ==
    cursor.kind = "Cursor" =>
        LET p == Place(cursor.from)
            q == IF cursor.op = "move_right" THEN p + 1 ELSE p - 1
        IN  /\ cursor.op \in {"move_right", "move_left"} =>
                   IF p # 0 /\ q \in 1..Len(CursorNodes)
                   THEN cursor.ok /\ cursor.node = Some(CursorNodes[q])
                   ELSE ~cursor.ok /\ cursor.node = None
            /\ cursor.node = None =>
                   /\ current(arena, cursor.node) = None
                   /\ move_right(arena, cursor.node) =
                          [node |-> None, ok |-> FALSE]
                   /\ move_left(arena, cursor.node) =
                          [node |-> None, ok |-> FALSE]

\* move_left() on the head of a list of two or more elements.
C15_Witness ==
    /\ cursor.kind = "Cursor"
    /\ cursor.op = "move_left"
    /\ cursor.from = new_front(lists[cursor.l])
    /\ Len(CursorNodes) >= 2
    /\ ~cursor.ok

(* ------------------------------------------------------------ the token *)

\* The operations that take the token and touch nodes.
TokenOps ==
    {"len", "iter", "cursor_front", "cursor_back", "cursor_front_mut",
     "cursor_back_mut", "push_front", "push_back", "pop_front", "pop_back",
     "append", "prepend", "split_off", "clear", "from_iter"}

\* A signature table in which every operation takes &GhostToken.
TokenParam_shared(op) == "shared"

\* The token parameter in the operation's signature: &GhostToken is a
\* shared borrow, &mut GhostToken an exclusive one.
TokenParam(op) ==
    IF op \in {"len", "iter", "cursor_front", "cursor_back"}
    THEN "shared"
    ELSE "exclusive"

\* What the operation, or the cursor it returns, does to nodes: "write" when
\* its body reaches a borrow_mut(token), "read" when it only reaches
\* borrow(token).
NodeAccess(op) ==
    IF op \in {"len", "iter", "cursor_front", "cursor_back"}
    THEN "read"
    ELSE "write"

Live(h) == token[h].op # "none"

\* Holder h starts op on list l: the call, or the cursor or iterator it
\* returns, borrows the token until Release.  The borrow is granted as Rust
\* grants borrows: a shared one while no exclusive one is live, an
\* exclusive one while no borrow is live.
Acquire(h, op, l) ==
    /\ ~Live(h)
    /\ IF TokenParam(op) = "shared"
       THEN \A g \in Holders : Live(g) => TokenParam(token[g].op) = "shared"
       ELSE \A g \in Holders : ~Live(g)
    /\ token' = [token EXCEPT ![h] = [op |-> op, l |-> l]]
    /\ UNCHANGED <<heap, cursor, third, variants>>

\* The call returns, or the cursor or iterator is dropped.
Release(h) ==
    /\ Live(h)
    /\ token' = [token EXCEPT ![h] = NoAccess]
    /\ UNCHANGED <<heap, cursor, third, variants>>

NextToken ==
    \/ \E h \in Holders, op \in TokenOps, l \in ListIds : Acquire(h, op, l)
    \/ \E h \in Holders : Release(h)

SpecToken == Init /\ [][NextToken]_vars

\* C16: node contents are gated reader-writer style by the token: no state
\* has a live writing access (a mutating operation or a CursorMut) together
\* with any other live access, read or write, on any list; read accesses
\* may be live together.
C16_ReadersWriter ==
    \A g, h \in Holders :
        (g # h /\ Live(g) /\ Live(h)) =>
            /\ NodeAccess(token[g].op) = "read"
            /\ NodeAccess(token[h].op) = "read"

\* A CursorMut is live on l1 and no other holder has an access under way;
\* a len() on l2 cannot start before the CursorMut is dropped.
C16_Witness ==
    /\ token["t1"] = [op |-> "cursor_front_mut", l |-> "l1"]
    /\ ~Live("t2") /\ ~Live("t3")
    /\ ENABLED Release("t1")
    /\ ~ENABLED Acquire("t2", "len", "l2")

(* ------------------------------------------------------ dropping a list *)

\* A list goes out of scope.  LinkedList has no Drop impl and its fields
\* are a shared reference and two borrowed half handles, so its boundary
\* pair is forgotten and the arena is not touched.
DropList(l) ==
    /\ ~panicked
    /\ lists[l] # None
    /\ lists' = [lists EXCEPT ![l] = None]
    /\ last' = Call("drop", l, l, 0, None)
    /\ run' = Idle
    /\ UNCHANGED <<arena, panicked, dbg_failed, cursor, rest>>

\* The calls that take a value in or give one out, and the drop of a list.
NextDrop ==
    \/ \E l \in ListIds : PushFront(l)
    \/ \E l \in ListIds : PushBack(l)
    \/ \E l \in ListIds : PopFront(l)
    \/ \E l \in ListIds : PopBack(l)
    \/ \E l \in ListIds : Clear(l)
    \/ \E l \in ListIds : DropList(l)

SpecDrop == Init /\ [][NextDrop]_vars

\* The number of arena slots that hold value v.
Count(ar, v) == Cardinality({i \in 1..Len(ar) : ar[i].value = Some(v)})

\* The number of places of sequence s that hold v.
Occurs(s, v) == Cardinality({i \in 1..Len(s) : s[i] = v})

\* The number of times the call recorded in c took v in, and gave v out.
Pushed(c, v) ==
    IF c.op \in {"push_front", "push_back"} /\ c.arg = v THEN 1 ELSE 0

Released(c, v) ==
    IF c.op \in {"pop_front", "pop_back"} THEN (IF c.ret = Some(v) THEN 1 ELSE 0)
    ELSE IF c.op = "clear" THEN Occurs(c.pre[c.l], v)
    ELSE 0

\* C17: every pushed value is released exactly once.  On every step the
\* slots holding a value grow by what the call took in and shrink by what
\* it gave out, so a value returned by a pop is no longer in the slot it was
\* in, and a value not returned stays in the arena; the pop empties the
\* slot of the node it retires; dropping a non-empty list leaves the arena
\* as it is and returns nothing.
C17_ReleasedOnce ==
    [][/\ \A v \in 1..Len(arena') :
            Count(arena', v) = Count(arena, v) + Pushed(last', v)
                                               - Released(last', v)
       /\ (last'.op = "pop_front" /\ last'.ret # None) =>
              /\ arena[Unwrap(lists[last'.l])[1]].value = last'.ret
              /\ arena'[Unwrap(lists[last'.l])[1]].value = None
       /\ (last'.op = "pop_back" /\ last'.ret # None) =>
              /\ arena[Unwrap(lists[last'.l])[2]].value = last'.ret
              /\ arena'[Unwrap(lists[last'.l])[2]].value = None
       /\ last'.op = "drop" =>
              /\ arena' = arena
              /\ last'.ret = None
              /\ lists'[last'.l] = None]_vars

\* A list of two elements has been dropped: both values are still in
\* their slots and no list reaches them.
C17_Witness ==
    /\ last.op = "drop"
    /\ Len(last.pre[last.l]) = 2
    /\ \A i \in 1..2 : Count(arena, last.pre[last.l][i]) = 1
    /\ \A l \in ListIds : lists[l] = None

(* --------------------------------------------------- allocation failure *)

\* Arena::alloc, called by new_halves, is the only allocation.  When it
\* fails the call does not return (the failure is fatal): the state left
\* behind is the state the call had reached.  `room` is the number of
\* allocations of the call that succeed before the one that fails.

\* push_front and push_back call new_halves first: nothing is written yet.
push_alloc_fails(ar, self) == Res(ar, self, None, TRUE, FALSE)

\* split_off has gone `room` times round its loop, has popped the next
\* element off self, and fails in head.push_back(element): the local list
\* `head` and the element are gone with the call.
split_off_alloc_fails(ar, self, room) ==
    LET r == split_off_loop(ar, self, None, room, FALSE)
        p == pop_front(r.arena, Unwrap(r.ret))
    IN  Res(p.arena, p.self, None, TRUE, r.dbg \/ p.dbg)

\* from_iter has pushed `room` items on its local list and fails in the
\* next push_back: the local list is gone with the call.
from_iter_alloc_fails(iter, ar, room) ==
    LET r == from_iter_loop(ar, None, SubSeq(iter, 1, room))
    IN  Res(r.arena, None, None, TRUE, r.dbg)

PushFrontAllocFails(l) ==
    /\ ~panicked
    /\ Commit1(l, push_alloc_fails(arena, lists[l]))
    /\ last' = Call("push_front_alloc_fails", l, l, NextValue, None)
    /\ run' = Idle

PushBackAllocFails(l) ==
    /\ ~panicked
    /\ Commit1(l, push_alloc_fails(arena, lists[l]))
    /\ last' = Call("push_back_alloc_fails", l, l, NextValue, None)
    /\ run' = Idle

SplitOffAllocFails(l, at, room) ==
    /\ ~panicked
    /\ room < Min(at, len(arena, lists[l]))
    /\ Len(arena) + room <= MaxNodes
    /\ Commit1(l, split_off_alloc_fails(arena, lists[l], room))
    /\ last' = Call("split_off_alloc_fails", l, l, at, None)
    /\ run' = Idle

FromIterAllocFails(l, room) ==
    /\ ~panicked
    /\ room < len(arena, lists[l])
    /\ Len(arena) + room <= MaxNodes
    /\ LET r == from_iter_alloc_fails(iter_collect(arena, lists[l]), arena, room)
       IN  /\ arena' = r.arena
           /\ panicked' = r.panic
           /\ dbg_failed' = (dbg_failed \/ r.dbg)
    /\ last' = Call("from_iter_alloc_fails", l, l, 0, None)
    /\ run' = Idle
    /\ UNCHANGED <<lists, cursor, rest>>

NextAlloc ==
    \/ Next
    \/ \E l \in ListIds : PushFrontAllocFails(l)
    \/ \E l \in ListIds : PushBackAllocFails(l)
    \/ \E l \in ListIds, at \in 0..MaxAt, room \in 0..MaxNodes :
          SplitOffAllocFails(l, at, room)
    \/ \E l \in ListIds, room \in 0..MaxNodes : FromIterAllocFails(l, room)

SpecAlloc == Init /\ [][NextAlloc]_vars

AllocFails ==
    {"push_front_alloc_fails", "push_back_alloc_fails",
     "split_off_alloc_fails", "from_iter_alloc_fails"}

\* C18: a call of push_front, push_back, from_iter or split_off in which
\* the arena fails to allocate leaves every list with the contents and the
\* links it had before the call: the boundary pairs and every node that
\* existed before the call are as they were.
C18_AllocFailure ==
    [][last'.op \in AllocFails =>
          /\ lists' = lists
          /\ \A i \in 1..Len(arena) : arena'[i] = arena[i]
          /\ Contents(arena', lists') = last'.pre]_vars

(* ---------------------------------------------------- the slot-map list *)

\* The list of src/lists/third keeps its nodes in a SlotMap.  A key is the
\* index of a slot of `nodes`; a slot holds Some(node), or None once the
\* node is removed, and a key is never handed out twice.  The list record
\* has the fields len, nodes and head_tail of the struct.
SmNode(value) == [value |-> value, prev |-> None, next |-> None]

\* self.get(key) / self.get_mut(key): None for a removed node.
sm_get(self, key) == self.nodes[key]

\* The result of a call: the list after it, the value returned, and
\* whether it panicked (then `self` is the list as the panic left it).
SmRes(self, ret, panic) == [self |-> self, ret |-> ret, panic |-> panic]

\* self.insert(value): the list with the new node, and the new key.
sm_insert(self, value) ==
    [self |-> [self EXCEPT !.nodes = Append(@, Some(SmNode(value)))],
     key |-> Len(self.nodes) + 1]

sm_push_front(self, value) ==
    LET i == sm_insert(self, value)
        new_head == i.key
    IN  IF self.head_tail # None
        THEN LET head == Unwrap(self.head_tail)[1]
                 tail == Unwrap(self.head_tail)[2]
             IN  IF sm_get(i.self, head) = None
                 THEN SmRes([i.self EXCEPT !.head_tail = None], None, TRUE)
                 ELSE SmRes([i.self EXCEPT
                               !.nodes[head] = Some([Unwrap(@) EXCEPT
                                                  !.prev = Some(new_head)]),
                               !.nodes[new_head] = Some([Unwrap(@) EXCEPT
                                                  !.next = Some(head)]),
                               !.head_tail = Some(<<new_head, tail>>),
                               !.len = @ + 1], None, FALSE)
        ELSE SmRes([i.self EXCEPT !.head_tail = Some(<<new_head, new_head>>),
                                  !.len = @ + 1], None, FALSE)

sm_push_back(self, value) ==
    LET i == sm_insert(self, value)
        new_tail == i.key
    IN  IF self.head_tail # None
        THEN LET head == Unwrap(self.head_tail)[1]
                 tail == Unwrap(self.head_tail)[2]
             IN  IF sm_get(i.self, tail) = None
                 THEN SmRes([i.self EXCEPT !.head_tail = None], None, TRUE)
                 ELSE SmRes([i.self EXCEPT
                               !.nodes[tail] = Some([Unwrap(@) EXCEPT
                                                  !.next = Some(new_tail)]),
                               !.nodes[new_tail] = Some([Unwrap(@) EXCEPT
                                                  !.prev = Some(tail)]),
                               !.head_tail = Some(<<head, new_tail>>),
                               !.len = @ + 1], None, FALSE)
        ELSE SmRes([i.self EXCEPT !.head_tail = Some(<<new_tail, new_tail>>),
                                  !.len = @ + 1], None, FALSE)

\* Some(self.remove(key).unwrap().value)
sm_remove_value(self, key) ==
    IF sm_get(self, key) = None
    THEN SmRes(self, None, TRUE)
    ELSE SmRes([self EXCEPT !.nodes[key] = None],
               Some(Unwrap(sm_get(self, key)).value), FALSE)

sm_pop_front(self) ==
    IF self.head_tail = None
    THEN SmRes(self, None, FALSE)
    ELSE LET head == Unwrap(self.head_tail)[1]
             tail == Unwrap(self.head_tail)[2]
             s1 == [self EXCEPT !.head_tail = None]
         IN  IF head = tail
             THEN sm_remove_value(s1, head)
             ELSE IF sm_get(s1, head) = None
                     \/ Unwrap(sm_get(s1, head)).next = None
             THEN SmRes(s1, None, TRUE)
             ELSE LET new_head == Unwrap(Unwrap(sm_get(s1, head)).next)
                      s2 == [s1 EXCEPT !.nodes[head] =
                                Some([Unwrap(@) EXCEPT !.next = None])]
                  IN  IF sm_get(s2, new_head) = None
                         \/ Unwrap(sm_get(s2, new_head)).prev = None
                      THEN SmRes(s2, None, TRUE)
                      ELSE sm_remove_value(
                               [s2 EXCEPT
                                  !.nodes[new_head] =
                                      Some([Unwrap(@) EXCEPT !.prev = None]),
                                  !.head_tail = Some(<<new_head, tail>>),
                                  !.len = @ - 1],
                               head)

\* In the head == tail branch the removed value is an expression statement,
\* not a return: the call goes on.  The node whose prev is taken is head.
sm_pop_back(self) ==
    IF self.head_tail = None
    THEN SmRes(self, None, FALSE)
    ELSE LET head == Unwrap(self.head_tail)[1]
             tail == Unwrap(self.head_tail)[2]
             s1 == [self EXCEPT !.head_tail = None]
             r0 == IF head = tail THEN sm_remove_value(s1, tail)
                                  ELSE SmRes(s1, None, FALSE)
             s2 == r0.self
         IN  IF r0.panic
             THEN SmRes(s2, None, TRUE)
             ELSE IF sm_get(s2, head) = None
                     \/ Unwrap(sm_get(s2, head)).prev = None
             THEN SmRes(s2, None, TRUE)
             ELSE LET new_tail == Unwrap(Unwrap(sm_get(s2, head)).prev)
                      s3 == [s2 EXCEPT !.nodes[head] =
                                Some([Unwrap(@) EXCEPT !.prev = None])]
                  IN  IF sm_get(s3, new_tail) = None
                         \/ Unwrap(sm_get(s3, new_tail)).next = None
                      THEN SmRes(s3, None, TRUE)
                      ELSE sm_remove_value(
                               [s3 EXCEPT
                                  !.nodes[new_tail] =
                                      Some([Unwrap(@) EXCEPT !.next = None]),
                                  !.head_tail = Some(<<head, new_tail>>),
                                  !.len = @ - 1],
                               tail)

RECURSIVE sm_clear(_)
\* while self.pop_front().is_some() {}
sm_clear(self) ==
    LET p == sm_pop_front(self)
    IN  IF p.panic \/ p.ret = None
        THEN SmRes(p.self, None, p.panic)
        ELSE sm_clear(p.self)

RECURSIVE sm_iter_from(_, _, _)
\* Iter::next until it returns None: the items from head to tail.
sm_iter_from(self, head_tail, fuel) ==
    IF head_tail = None \/ fuel = 0 \/ sm_get(self, Unwrap(head_tail)[1]) = None
    THEN <<>>
    ELSE LET head == Unwrap(head_tail)[1]
             tail == Unwrap(head_tail)[2]
             node == Unwrap(sm_get(self, head))
             rest_ == IF head # tail /\ node.next # None
                      THEN Some(<<Unwrap(node.next), tail>>)
                      ELSE None
         IN  <<node.value>> \o sm_iter_from(self, rest_, fuel - 1)

\* list.iter().collect()
sm_iter_collect(self) == sm_iter_from(self, self.head_tail, Len(self.nodes))

\* The list after the call with result r, and the record of the call.
SmCall(op, r) ==
    /\ third' = [r.self EXCEPT !.op = op, !.ret = r.ret, !.panicked = r.panic,
                               !.pre = sm_iter_collect(third)]
    /\ UNCHANGED <<heap, cursor, token, variants>>

SmPushFront ==
    /\ ~third.panicked
    /\ Len(third.nodes) < MaxSlots
    /\ SmCall("push_front", sm_push_front(third, Len(third.nodes) + 1))

SmPushBack ==
    /\ ~third.panicked
    /\ Len(third.nodes) < MaxSlots
    /\ SmCall("push_back", sm_push_back(third, Len(third.nodes) + 1))

SmPopFront ==
    /\ ~third.panicked
    /\ SmCall("pop_front", sm_pop_front(third))

SmPopBack ==
    /\ ~third.panicked
    /\ SmCall("pop_back", sm_pop_back(third))

SmClear ==
    /\ ~third.panicked
    /\ SmCall("clear", sm_clear(third))

NextThird ==
    \/ SmPushFront
    \/ SmPushBack
    \/ SmPopFront
    \/ SmPopBack
    \/ SmClear

SpecThird == Init /\ [][NextThird]_vars

\* C19: in the lists that keep a counter, after any sequence of push, pop
\* and clear, len() is the number of elements the list holds, and is 0
\* once the list has been emptied.
C19_Len ==
    ~third.panicked => third.len = Len(sm_iter_collect(third))

\* C20: pop_back of the slot-map list on a non-empty list returns the last
\* value and does not panic.
C20_PopBack ==
    (third.op = "pop_back" /\ third.pre # <<>>) =>
        /\ ~third.panicked
        /\ third.ret = Some(third.pre[Len(third.pre)])

(* ------------------------------------------------- ownership of the nodes *)

\* The half handles that denote node n: the left and right link slots of
\* all nodes and the two slots of the boundary pair of every list.
Halves(ar, ls, n) ==
    Cardinality({i \in 1..Len(ar) : ar[i].left = Some(n)})
    + Cardinality({i \in 1..Len(ar) : ar[i].right = Some(n)})
    + Cardinality({p \in ListIds \X {1, 2} :
                     ls[p[1]] # None /\ Unwrap(ls[p[1]])[p[2]] = n})

\* A node is retired when into_inner has taken its value.
Retired(ar, n) == ar[n].value = None

C22_Placement ==
    \A l \in ListIds :
        lists[l] # None =>
            LET ns == NodesRight(arena, lists[l])
                ms == NodesLeft(arena, lists[l])
                ht == Unwrap(lists[l])
            IN  /\ ht[1] = ns[1]
                /\ ht[2] = ms[1]
                /\ ht[2] = ns[Len(ns)]
                /\ \A i \in 1..(Len(ns) - 1) :
                      /\ arena[ns[i + 1]].left = Some(ns[i])
                      /\ arena[ns[i]].right = Some(ns[i + 1])
                /\ Len(ns) = 1 =>
                      /\ ht = <<ns[1], ns[1]>>
                      /\ arena[ns[1]].left = None
                      /\ arena[ns[1]].right = None

\* One list holds one element and the other three, after a push_back.
C22_Witness ==
    /\ last.op = "push_back"
    /\ \E l, m \in ListIds :
          /\ Len(NodesRight(arena, lists[l])) = 1
          /\ Len(NodesRight(arena, lists[m])) = 3

\* C23: in a non-empty list of length n the head has no left link, the
\* tail has no right link and every other link of a member is present;
\* right links lead from the head to the tail in n - 1 steps over n
\* different nodes, and left links lead from the tail to the head in
\* n - 1 steps.
C23_Chain ==
    \A l \in ListIds :
        lists[l] # None =>
            LET ns == NodesRight(arena, lists[l])
                ms == NodesLeft(arena, lists[l])
                n == len(arena, lists[l])
                head == Unwrap(lists[l])[1]
                tail == Unwrap(lists[l])[2]
            IN  /\ n >= 1
                /\ arena[head].left = None
                /\ arena[tail].right = None
                /\ Len(ns) = n /\ ns[1] = head /\ ns[n] = tail
                /\ Len(ms) = n /\ ms[1] = tail /\ ms[n] = head
                /\ \A i, j \in 1..n : ns[i] = ns[j] => i = j
                /\ \A i \in 1..n :
                      /\ i < n => arena[ns[i]].right # None
                      /\ i > 1 => arena[ns[i]].left # None

\* A list of three nodes after a pop_back that returned a value.
C23_Witness ==
    /\ last.op = "pop_back"
    /\ last.ret # None
    /\ Len(NodesRight(arena, lists[last.l])) = 3

(* ------------------------------------------------------------- the join *)

\* The two half handles pop_front hands to into_inner: the boundary pair
\* on the one-element path, else head and the half taken out of the left
\* slot of head's right neighbour.
join_of_pop_front(ar, self) ==
    LET head == Unwrap(self)[1]
        tail == Unwrap(self)[2]
    IN  IF head = tail THEN <<head, tail>>
        ELSE <<head, Unwrap(ar[Unwrap(ar[head].right)].left)>>

\* The two half handles pop_back hands to into_inner.
join_of_pop_back(ar, self) ==
    LET head == Unwrap(self)[1]
        tail == Unwrap(self)[2]
    IN  IF head = tail THEN <<head, tail>>
        ELSE <<tail, Unwrap(ar[Unwrap(ar[tail].left)].right)>>

\* C24: no call has panicked, and in every reachable state a pop_front or
\* a pop_back on either list does not panic: no unwrap or expect on a
\* neighbour link fails, the two half handles handed to join denote the
\* same node, and the value returned is the value of the head (of the
\* tail) and of no other node.
C24_JoinHolds ==
    /\ ~panicked
    /\ \A l \in ListIds :
          LET f == pop_front(arena, lists[l])
              b == pop_back(arena, lists[l])
          IN  /\ ~f.panic
              /\ ~b.panic
              /\ lists[l] # None =>
                    /\ join_of_pop_front(arena, lists[l])[1] =
                           join_of_pop_front(arena, lists[l])[2]
                    /\ join_of_pop_back(arena, lists[l])[1] =
                           join_of_pop_back(arena, lists[l])[2]
                    /\ f.ret # None
                    /\ f.ret = arena[Unwrap(lists[l])[1]].value
                    /\ b.ret # None
                    /\ b.ret = arena[Unwrap(lists[l])[2]].value

\* A pop_front has gone down the unlink path and returned a value, on a
\* list of three or more that did not hold its values in allocation order.
C24_Witness ==
    /\ last.op = "pop_front"
    /\ Len(last.pre[last.l]) >= 3
    /\ last.ret # None
    /\ ~panicked
    /\ \E i \in 1..(Len(last.pre[last.l]) - 1) :
          last.pre[last.l][i] > last.pre[last.l][i + 1]

(* ------------------------------------------------------- the value slot *)

\* The nodes that are members of some list.
Members == {n \in 1..Len(arena) :
              \E l \in ListIds :
                 \E i \in 1..Len(NodesRight(arena, lists[l])) :
                    NodesRight(arena, lists[l])[i] = n}

C26_AppendOnly ==
    [][/\ Len(arena') >= Len(arena)
       /\ \A n \in 1..Len(arena) :
             /\ Retired(arena, n) => arena'[n] = arena[n]
             /\ Retired(arena, n) => Halves(arena', lists', n) = 0
       /\ last'.op \in {"pop_front", "pop_back", "clear"} =>
             Len(arena') = Len(arena)
       /\ last'.op \in {"push_front", "push_back"} =>
             /\ Len(arena') = Len(arena) + 1
             /\ arena'[Len(arena')].value = Some(last'.arg)
       /\ last'.op = "push_front" =>
             Unwrap(lists'[last'.l])[1] = Len(arena) + 1
       /\ last'.op = "push_back" =>
             Unwrap(lists'[last'.l])[2] = Len(arena) + 1]_vars

\* A push_back on a list emptied by pops: two slots are retired and the
\* new node is in a third.
C26_Witness ==
    /\ last.op = "push_back"
    /\ last.pre[last.l] = <<>>
    /\ Cardinality({n \in 1..Len(arena) : Retired(arena, n)}) = 2
    /\ lists[last.l] = Some(<<3, 3>>)

(* ------------------------------------------------------ append's writes *)

\* C27: append on a non-empty self and a non-empty other writes the right
\* slot of self's former tail, the left slot of other's former head and
\* the two boundary pairs, and nothing else: the values of all nodes, both
\* links of every other node, the left link of the former tail and the
\* right link of the former head are as before, and no slot is allocated
\* or retired.
C27_AppendFrame ==
    [][(last'.op = "append" /\ lists[last'.l] # None /\ lists[last'.m] # None)
       => LET head == Unwrap(lists[last'.l])[1]
              mid_tail == Unwrap(lists[last'.l])[2]
              mid_head == Unwrap(lists[last'.m])[1]
              tail == Unwrap(lists[last'.m])[2]
          IN  /\ Len(arena') = Len(arena)
              /\ \A n \in 1..Len(arena) :
                    /\ arena'[n].value = arena[n].value
                    /\ n # mid_tail => arena'[n].right = arena[n].right
                    /\ n # mid_head => arena'[n].left = arena[n].left
              /\ arena'[mid_tail].right = Some(mid_head)
              /\ arena'[mid_head].left = Some(mid_tail)
              /\ lists'[last'.l] = Some(<<head, tail>>)
              /\ lists'[last'.m] = None]_vars

\* append has joined two lists of two nodes each.
C27_Witness ==
    /\ last.op = "append"
    /\ Len(last.pre[last.l]) = 2
    /\ Len(last.pre[last.m]) = 2
    /\ Len(NodesRight(arena, lists[last.l])) = 4

(* ------------------------------------------------ the read-only methods *)

\* C28: len(), is_empty(), iter(), Iter::next, cursor_front(),
\* cursor_back() and the Cursor methods leave every list's boundary pair,
\* every node's links and value and the number of half handles of every
\* node as they were; len() and is_empty() return the length and whether
\* it is 0.
C28_ReadOnly ==
    [][(cursor.kind # "none" \/ cursor'.op # "none") =>
          /\ lists' = lists
          /\ arena' = arena
          /\ \A n \in 1..Len(arena) :
                Halves(arena', lists', n) = Halves(arena, lists, n)
          /\ cursor'.op = "len" =>
                cursor'.ret = Some(Len(NodesRight(arena, lists[cursor'.l])))
          /\ cursor'.op = "is_empty" =>
                cursor'.ok = (NodesRight(arena, lists[cursor'.l]) = <<>>)]_vars

\* A cursor has moved over a link between two nodes, and the arena still
\* holds that link.
C28_Witness ==
    /\ cursor.kind = "Cursor"
    /\ cursor.op = "move_right"
    /\ cursor.ok
    /\ arena[Unwrap(cursor.from)].right = cursor.node

(* ---------------------------------------------------------- termination *)

RECURSIVE clear_pops(_, _, _)
\* The calls of pop_back that return a value in clear()'s loop
\* `while self.pop_back(token).is_some() {}`, counted up to `fuel`.
clear_pops(ar, self, fuel) ==
    LET p == pop_back(ar, self)
    IN  IF fuel = 0 \/ p.panic \/ p.ret = None
        THEN 0
        ELSE 1 + clear_pops(p.arena, p.self, fuel - 1)

RECURSIVE split_off_attempts_no_return(_, _, _)
\* The loop of split_off without the return on an empty list.
split_off_attempts_no_return(ar, self, at) ==
    IF at = 0
    THEN 0
    ELSE LET p == pop_front(ar, self)
         IN  1 + split_off_attempts_no_return(p.arena, p.self, at - 1)

RECURSIVE split_off_attempts(_, _, _)
\* The calls of pop_front made by split_off(at): one in each round of
\* `for _ in 0..at`, the loop being left by `return None` on the first
\* call that returns None.
split_off_attempts(ar, self, at) ==
    IF at = 0
    THEN 0
    ELSE LET p == pop_front(ar, self)
         IN  IF p.panic \/ p.ret = None
             THEN 1
             ELSE 1 + split_off_attempts(p.arena, p.self, at - 1)

\* C29: every operation terminates.  On a list of length n, clear() makes
\* exactly n calls of pop_back that return a value and leaves the list
\* empty; iteration (and len()) ends with a None after n items, n being no
\* more than the number of slots; split_off(at) makes min(at, n + 1) calls
\* of pop_front.
C29_Terminates ==
    \A l \in ListIds :
        LET n == Len(NodesRight(arena, lists[l]))
        IN  /\ clear_pops(arena, lists[l], Len(arena) + 1) = n
            /\ clear(arena, lists[l]).self = None
            /\ ~clear(arena, lists[l]).panic
            /\ len(arena, lists[l]) = n
            /\ n <= Len(arena)
            /\ iter_collect_from(arena, new_front(lists[l]), n) =
                  iter_collect(arena, lists[l])
            /\ \A at \in 0..MaxAt :
                  split_off_attempts(arena, lists[l], at) = Min(at, n + 1)

\* split_off(4) on a list of two has made three calls of pop_front and
\* returned None.
C29_Witness ==
    /\ last.op = "split_off"
    /\ last.arg = 4
    /\ Len(last.pre[last.l]) = 2
    /\ last.ret = None
    /\ split_off_attempts(arena, lists[last.l], 4) = 3

(* ----------------------------------------------------------- refinement *)

\* The abstract lists: a sequence of values for each list.  AbsStep is the
\* sequences after call c (as recorded in `last`) on the sequences s, and
\* AbsRet the value an abstract pop returns.
AbsStep(c, s) ==
    CASE c.op = "push_front" -> [s EXCEPT ![c.l] = <<c.arg>> \o @]
      [] c.op = "push_back" -> [s EXCEPT ![c.l] = Append(@, c.arg)]
      [] c.op = "pop_front" ->
            [s EXCEPT ![c.l] = IF @ = <<>> THEN @ ELSE Tail(@)]
      [] c.op = "pop_back" ->
            [s EXCEPT ![c.l] = IF @ = <<>> THEN @ ELSE SubSeq(@, 1, Len(@) - 1)]
      [] c.op = "append" -> [s EXCEPT ![c.l] = s[c.l] \o s[c.m], ![c.m] = <<>>]
      [] c.op = "prepend" -> [s EXCEPT ![c.l] = s[c.m] \o s[c.l], ![c.m] = <<>>]
      [] c.op = "split_off" ->
            IF c.arg <= Len(s[c.l])
            THEN [s EXCEPT ![c.l] = SubSeq(s[c.l], 1, c.arg),
                           ![c.m] = SubSeq(s[c.l], c.arg + 1, Len(s[c.l]))]
            ELSE s
      [] c.op = "clear" -> [s EXCEPT ![c.l] = <<>>]
      [] c.op = "from_iter" -> [s EXCEPT ![c.m] = s[c.l]]
      [] OTHER -> s

AbsRet(c, s) ==
    IF s[c.l] = <<>> THEN None
    ELSE IF c.op = "pop_front" THEN Some(Head(s[c.l]))
    ELSE Some(s[c.l][Len(s[c.l])])

\* C30: the two lists in one arena refine abstract sequences.  On every
\* step of push_front, push_back, pop_front, pop_back, append, prepend,
\* split_off and clear on either list, forward iteration of each list
\* after the step is the abstract sequence after the abstract step; a pop
\* returns the first (the last) element of the abstract sequence, or None
\* when it is empty; and the list the call is not made on changes only
\* through append and prepend, or by receiving what split_off returns.
C30_Refines ==
    [][LET abs == Contents(arena, lists)
       IN  /\ Contents(arena', lists') = AbsStep(last', abs)
           /\ last'.op \in {"pop_front", "pop_back"} =>
                 last'.ret = AbsRet(last', abs)
           /\ last'.op \in {"push_front", "push_back", "pop_front",
                             "pop_back", "clear"} =>
                 \A k \in ListIds \ {last'.l} :
                    /\ lists'[k] = lists[k]
                    /\ NodesRight(arena', lists'[k]) =
                          NodesRight(arena, lists[k])]_vars

\* A pop_back has returned a value on one list while the other holds two
\* elements and an earlier node is retired.
C30_Witness ==
    /\ last.op = "pop_back"
    /\ last.ret # None
    /\ \E k \in ListIds \ {last.l} : Len(last.pre[k]) = 2
    /\ \E n \in 1..Len(arena) :
          Retired(arena, n) /\ n < Len(arena) - 1

(* ------------------------------------------------- split_off, continued *)

\* C32: split_off at the length is in range.  On a list of length n,
\* split_off(n) returns Some of an empty list and leaves the n elements in
\* self in order; split_off(0) returns a list with the n elements and
\* leaves self empty; None is returned exactly when at > n.
C32_SplitOffAtLen ==
    last.op = "split_off" =>
        LET old == last.pre[last.l]
        IN  /\ (last.ret = None) <=> (last.arg > Len(old))
            /\ last.arg = Len(old) =>
                  /\ last.ret = Some(None)
                  /\ iter_collect(arena, lists[last.l]) = old
            /\ last.arg = 0 =>
                  /\ last.ret # None
                  /\ iter_collect(arena, Unwrap(last.ret)) = old
                  /\ lists[last.l] = None

\* split_off(2) on a list of two has returned an empty list.
C32_Witness ==
    /\ last.op = "split_off"
    /\ last.arg = 2
    /\ Len(last.pre[last.l]) = 2
    /\ last.ret = Some(None)

\* The slots retired in ar.
RetiredSlots(ar) == {n \in 1..Len(ar) : Retired(ar, n)}

\* C33: split_off(at) on a list of length n retires min(at, n) nodes, the
\* first ones of the list, and allocates min(at, n) slots that hold their
\* values in order; for at > n the list ends with the contents it had, in
\* the n new slots, its n old slots being retired.
C33_SplitOffMoves ==
    [][last'.op = "split_off" =>
          LET old == NodesRight(arena, lists[last'.l])
              k == Min(last'.arg, Len(old))
          IN  /\ Len(arena') = Len(arena) + k
              /\ RetiredSlots(arena') =
                    RetiredSlots(arena) \cup {old[i] : i \in 1..k}
              /\ \A i \in 1..k :
                    arena'[Len(arena) + i].value = arena[old[i]].value
              /\ last'.arg > Len(old) =>
                    /\ NodesRight(arena', lists'[last'.l]) =
                          [i \in 1..k |-> Len(arena) + i]
                    /\ Contents(arena', lists') = Contents(arena, lists)]_vars

\* split_off(3) on a list of two has returned None and left the list in
\* slots 3 and 4.
C33_Witness ==
    /\ last.op = "split_off"
    /\ last.arg = 3
    /\ Len(last.pre[last.l]) = 2
    /\ NodesRight(arena, lists[last.l]) = <<3, 4>>

(* ------------------------------------------------------------ CursorMut *)

\* The value written through a mutable cursor: it is not the serial
\* number of any push.
WriteValues == {-1}

\* LinkedList::cursor_front_mut: the `node` of the CursorMut it returns.
cursor_front_mut(self) == new_front(self)

\* LinkedList::cursor_back_mut: its body calls CursorMut::new_front.
cursor_back_mut(self) == new_front(self)

\* CursorMut::current that hands out the value of the right neighbour too.
current_mut_spill(ar, c, v) ==
    IF c = None \/ ar[Unwrap(c)].value = None
    THEN [arena |-> ar, ret |-> None]
    ELSE [arena |-> [n \in 1..Len(ar) |->
                       IF Some(n) \in {c, ar[Unwrap(c)].right}
                       THEN [ar[n] EXCEPT !.value = Some(v)]
                       ELSE ar[n]],
          ret |-> Some(v)]

\* CursorMut::current followed by a write of v through the &mut T it
\* returns: borrow_mut()? and as_mut() give None off the list and on a node
\* without a value, and nothing is written then.
current_mut(ar, c, v) ==
    IF c = None \/ ar[Unwrap(c)].value = None
    THEN [arena |-> ar, ret |-> None]
    ELSE [arena |-> [ar EXCEPT ![Unwrap(c)].value = Some(v)],
          ret |-> Some(v)]

\* CursorMut::move_right and move_left: GhostCursor::move_mut with the
\* link as the step.  It is Ok, and the cursor is on the neighbour, when the
\* link is there; when it is not, the result is false and the cursor is
\* left where GhostCursor leaves it, on its node or off the list.
move_mut(c, step) ==
    IF step # None
    THEN {[node |-> step, ok |-> TRUE]}
    ELSE {[node |-> c, ok |-> FALSE], [node |-> None, ok |-> FALSE]}

CursorFrontMut(l) ==
    Borrow("CursorMut", l, cursor_front_mut(lists[l]), "cursor_front_mut")

CursorBackMut(l) ==
    Borrow("CursorMut", l, cursor_back_mut(lists[l]), "cursor_back_mut")

\* A call on the live mutable cursor that writes no node.
CursorMutCall(op, node, ok, ret) ==
    /\ cursor.kind = "CursorMut"
    /\ cursor' = [cursor EXCEPT !.op = op, !.from = cursor.node,
                                !.node = node, !.ok = ok, !.ret = ret]
    /\ arena' = borrowed(arena)
    /\ UNCHANGED <<lists, last, run, panicked, dbg_failed, rest>>

MutMoveRight ==
    \E r \in move_mut(cursor.node, peek_right_node(arena, cursor.node)) :
        CursorMutCall("move_right", r.node, r.ok, None)

MutMoveLeft ==
    \E r \in move_mut(cursor.node, peek_left_node(arena, cursor.node)) :
        CursorMutCall("move_left", r.node, r.ok, None)

MutPeekRight ==
    CursorMutCall("peek_right", cursor.node, FALSE,
                  peek_right(arena, cursor.node))

MutPeekLeft ==
    CursorMutCall("peek_left", cursor.node, FALSE,
                  peek_left(arena, cursor.node))

\* *cursor.current().unwrap() = v, and cursor.current() being None.
MutCurrent(v) ==
    /\ cursor.kind = "CursorMut"
    /\ LET r == current_mut(arena, cursor.node, v)
       IN  /\ arena' = r.arena
           /\ cursor' = [cursor EXCEPT !.op = "current",
                                       !.from = cursor.node,
                                       !.ok = FALSE, !.ret = r.ret]
    /\ UNCHANGED <<lists, last, run, panicked, dbg_failed, rest>>

\* CursorMut::into_cursor: the same node under a read cursor.
IntoCursor ==
    /\ cursor.kind = "CursorMut"
    /\ cursor' = [cursor EXCEPT !.kind = "Cursor", !.op = "into_cursor",
                                !.from = cursor.node, !.ok = FALSE,
                                !.ret = None]
    /\ UNCHANGED <<heap, rest>>

NextMut ==
    \/ \E l \in ListIds : QuietPushFront(l)
    \/ \E l \in ListIds : QuietPushBack(l)
    \/ \E l \in ListIds : QuietPopFront(l)
    \/ \E l \in ListIds : QuietPopBack(l)
    \/ \E l, m \in ListIds : QuietAppend(l, m)
    \/ \E l \in ListIds : CursorFrontMut(l)
    \/ \E l \in ListIds : CursorBackMut(l)
    \/ \E l \in ListIds : CursorBack(l)
    \/ MutMoveRight
    \/ MutMoveLeft
    \/ MutPeekRight
    \/ MutPeekLeft
    \/ \E v \in WriteValues : MutCurrent(v)
    \/ IntoCursor
    \/ Current
    \/ PeekRight
    \/ DropCursor

SpecMut == Init /\ [][NextMut]_vars

\* C36: cursor_back_mut returns a cursor on the last element of its list,
\* as cursor_back does: its node is the tail, its current() is the tail's
\* value and its peek_right() is absent; cursor_front_mut returns a cursor
\* on the first element.
C36_BackMut ==
    /\ cursor.op = "cursor_back_mut" =>
         /\ cursor.node = new_back(lists[cursor.l])
         /\ current(arena, cursor.node) = ValueAt(Len(CursorNodes))
         /\ peek_right(arena, cursor.node) = None
    /\ cursor.op = "cursor_front_mut" =>
         /\ cursor.node = new_front(lists[cursor.l])
         /\ current(arena, cursor.node) = ValueAt(1)

\* C39: a write through CursorMut::current() replaces the value of the
\* node under the cursor and nothing else: the boundary pairs, the nodes of
\* every list in both directions, every link and every other value are as
\* before; off the list current() is None and nothing is written.
C39_WriteFrame ==
    [][cursor'.kind = "CursorMut" /\ cursor'.op = "current" =>
          /\ lists' = lists
          /\ Len(arena') = Len(arena)
          /\ \A l \in ListIds :
                /\ NodesRight(arena', lists'[l]) = NodesRight(arena, lists[l])
                /\ NodesLeft(arena', lists'[l]) = NodesLeft(arena, lists[l])
          /\ \A n \in 1..Len(arena) :
                /\ arena'[n].left = arena[n].left
                /\ arena'[n].right = arena[n].right
                /\ Some(n) # cursor.node => arena'[n].value = arena[n].value
          /\ cursor'.node = cursor.node
          /\ IF Place(cursor.node) = 0
             THEN cursor'.ret = None /\ arena' = arena
             ELSE /\ cursor'.ret # None
                  /\ Unwrap(cursor'.ret) \in WriteValues
                  /\ arena'[Unwrap(cursor.node)].value = cursor'.ret]_vars

\* A write through a cursor on the middle node of a list of three.
C39_Witness ==
    /\ cursor.kind = "CursorMut" /\ cursor.op = "current"
    /\ Len(CursorNodes) = 3
    /\ Place(cursor.node) = 2
    /\ CursorValues[2] = cursor.ret
    /\ Unwrap(CursorValues[2]) \in WriteValues
    /\ Unwrap(CursorValues[1]) \notin WriteValues
    /\ Unwrap(CursorValues[3]) \notin WriteValues

(* ------------------------------------- the variant of src/src/arena.rs *)

\* In arena.rs a node is a GhostCell in a typed_arena::Arena and a link or
\* a boundary is a plain shared reference to it (NodeRef); nothing is ever
\* given back to the arena.  The arena is modelled as in lib.rs: a sequence
\* of nodes, a reference being an index.

\* LinkedList::insert: arena.alloc of a node with no links.
arena_insert(ar, value) ==
    [arena |-> Append(ar, Node(Some(value), None, None)), node |-> Len(ar) + 1]

arena_push_front(ar, self, value) ==
    LET ins == arena_insert(ar, value)
        new_node == ins.node
    IN  IF self # None
        THEN LET head == Unwrap(self)[1]
                 tail == Unwrap(self)[2]
                 ar1 == [ins.arena EXCEPT ![head].left = Some(new_node)]
                 ar2 == [ar1 EXCEPT ![new_node].right = Some(head)]
             IN  Res(ar2, Some(<<new_node, tail>>), None, FALSE, FALSE)
        ELSE Res(ins.arena, Some(<<new_node, new_node>>), None, FALSE, FALSE)

arena_push_back(ar, self, value) ==
    LET ins == arena_insert(ar, value)
        new_node == ins.node
    IN  IF self # None
        THEN LET head == Unwrap(self)[1]
                 tail == Unwrap(self)[2]
                 ar1 == [ins.arena EXCEPT ![tail].right = Some(new_node)]
                 ar2 == [ar1 EXCEPT ![new_node].left = Some(tail)]
             IN  Res(ar2, Some(<<head, new_node>>), None, FALSE, FALSE)
        ELSE Res(ins.arena, Some(<<new_node, new_node>>), None, FALSE, FALSE)

\* value.take() of a node.
arena_take(ar, node) ==
    [arena |-> [ar EXCEPT ![node].value = None], value |-> ar[node].value]

arena_pop_front(ar, self) ==
    IF self = None
    THEN Res(ar, None, None, FALSE, FALSE)
    ELSE LET head == Unwrap(self)[1]
             tail == Unwrap(self)[2]
         IN  IF head = tail
             THEN LET t == arena_take(ar, head)
                  IN  Res(t.arena, None, t.value, FALSE, FALSE)
             ELSE IF ar[head].right = None
             THEN Res(ar, None, None, TRUE, FALSE)
             ELSE LET next == Unwrap(ar[head].right)
                      ar1 == [ar EXCEPT ![head].right = None]
                  IN  IF ar1[next].left = None
                      THEN Res(ar1, None, None, TRUE, FALSE)
                      ELSE LET ar2 == [ar1 EXCEPT ![next].left = None]
                               t == arena_take(ar2, head)
                           IN  Res(t.arena, Some(<<next, tail>>), t.value,
                                   FALSE, FALSE)

arena_pop_back(ar, self) ==
    IF self = None
    THEN Res(ar, None, None, FALSE, FALSE)
    ELSE LET head == Unwrap(self)[1]
             tail == Unwrap(self)[2]
         IN  IF head = tail
             THEN LET t == arena_take(ar, head)
                  IN  Res(t.arena, None, t.value, FALSE, FALSE)
             ELSE IF ar[tail].left = None
             THEN Res(ar, None, None, TRUE, FALSE)
             ELSE LET prev == Unwrap(ar[tail].left)
                      ar1 == [ar EXCEPT ![tail].left = None]
                  IN  IF ar1[prev].right = None
                      THEN Res(ar1, None, None, TRUE, FALSE)
                      ELSE LET ar2 == [ar1 EXCEPT ![prev].right = None]
                               t == arena_take(ar2, tail)
                           IN  Res(t.arena, Some(<<head, prev>>), t.value,
                                   FALSE, FALSE)

\* append that sets the right link of the seam and not the left one.
arena_append_forward_only(ar, self, other) ==
    IF other = None
    THEN Res2(ar, self, other, FALSE, FALSE)
    ELSE IF self # None
    THEN LET ar1 == [ar EXCEPT ![Unwrap(self)[2]].right = Some(Unwrap(other)[1])]
         IN  Res2(ar1, Some(<<Unwrap(self)[1], Unwrap(other)[2]>>), None,
                  FALSE, FALSE)
    ELSE Res2(ar, other, None, FALSE, FALSE)

\* lift_with_mut stores mid_tail in the slot its closure returns, the left
\* link of the node the cursor has moved to, and returns what the slot held.
arena_append(ar, self, other) ==
    IF other = None
    THEN Res2(ar, self, other, FALSE, FALSE)
    ELSE IF self # None
    THEN LET head == Unwrap(self)[1]
             mid_tail == Unwrap(self)[2]
             mid_head == Unwrap(other)[1]
             tail == Unwrap(other)[2]
             ar1 == [ar EXCEPT ![mid_tail].right = Some(mid_head)]
             target == ar1[mid_tail].right
         IN  IF target = None
             THEN Res2(ar1, None, None, TRUE, FALSE)
             ELSE LET slot == Unwrap(target)
                      right == ar1[slot].left
                      ar2 == [ar1 EXCEPT ![slot].left = Some(mid_tail)]
                  IN  Res2(ar2, Some(<<head, tail>>), None, FALSE, right # None)
    ELSE Res2(ar, other, None, FALSE, FALSE)

\* other.append(self) and then mem::swap(self, other).
arena_prepend(ar, self, other) ==
    LET a == arena_append(ar, other, self)
    IN  Res2(a.arena, a.self, a.other, a.panic, a.dbg)

RECURSIVE arena_split_off_loop(_, _, _, _, _)
arena_split_off_loop(ar, self, head, i, dbg) ==
    IF i = 0
    THEN Res(ar, head, Some(self), FALSE, dbg)
    ELSE LET p == arena_pop_front(ar, self)
         IN  IF p.panic
             THEN Res(p.arena, p.self, None, TRUE, dbg)
             ELSE IF p.ret = None
             THEN LET r == arena_prepend(p.arena, p.self, head)
                  IN  Res(r.arena, r.self, None, r.panic, dbg \/ r.dbg)
             ELSE LET b == arena_push_back(p.arena, head, Unwrap(p.ret))
                  IN  arena_split_off_loop(b.arena, p.self, b.self, i - 1, dbg)

arena_split_off(ar, self, at) == arena_split_off_loop(ar, self, None, at, FALSE)

RECURSIVE arena_clear(_, _)
arena_clear(ar, self) ==
    LET p == arena_pop_back(ar, self)
    IN  IF p.panic \/ p.ret = None
        THEN Res(p.arena, p.self, None, p.panic, FALSE)
        ELSE arena_clear(p.arena, p.self)

\* list.iter(token).collect() in arena.rs: Iter and Cursor are the code of
\* lib.rs but for the `&*` of new_front and new_back.
arena_iter_collect(ar, self) == iter_collect(ar, self)

\* A walk over the left links with cursor_back, current and move_left.
arena_backward(ar, self) == backward(ar, self)

\* One call made on list l of both variants: r is its result in lib.rs, q
\* its result in arena.rs.
Both1(op, l, r, q) ==
    /\ ~panicked /\ ~plain.panicked
    /\ arena' = r.arena
    /\ lists' = [lists EXCEPT ![l] = r.self]
    /\ panicked' = r.panic
    /\ dbg_failed' = (dbg_failed \/ r.dbg)
    /\ plain' = [arena |-> q.arena,
                 lists |-> [plain.lists EXCEPT ![l] = q.self],
                 panicked |-> q.panic, op |-> op,
                 ret |-> q.ret, lib_ret |-> r.ret]
    /\ UNCHANGED <<last, run, cursor, token, third, opt, first, deiter>>

\* One call on l that takes m too.
Both2(op, l, m, r, q) ==
    /\ ~panicked /\ ~plain.panicked
    /\ l # m
    /\ arena' = r.arena
    /\ lists' = [lists EXCEPT ![l] = r.self, ![m] = r.other]
    /\ panicked' = r.panic
    /\ dbg_failed' = (dbg_failed \/ r.dbg)
    /\ plain' = [arena |-> q.arena,
                 lists |-> [plain.lists EXCEPT ![l] = q.self, ![m] = q.other],
                 panicked |-> q.panic, op |-> op,
                 ret |-> None, lib_ret |-> None]
    /\ UNCHANGED <<last, run, cursor, token, third, opt, first, deiter>>

BothPushFront(l) ==
    /\ Len(arena) < MaxNodes
    /\ Both1("push_front", l, push_front(arena, lists[l], NextValue),
             arena_push_front(plain.arena, plain.lists[l], NextValue))

BothPushBack(l) ==
    /\ Len(arena) < MaxNodes
    /\ Both1("push_back", l, push_back(arena, lists[l], NextValue),
             arena_push_back(plain.arena, plain.lists[l], NextValue))

BothPopFront(l) ==
    Both1("pop_front", l, pop_front(arena, lists[l]),
          arena_pop_front(plain.arena, plain.lists[l]))

BothPopBack(l) ==
    Both1("pop_back", l, pop_back(arena, lists[l]),
          arena_pop_back(plain.arena, plain.lists[l]))

BothAppend(l, m) ==
    Both2("append", l, m, append(arena, lists[l], lists[m]),
          arena_append(plain.arena, plain.lists[l], plain.lists[m]))

BothPrepend(l, m) ==
    Both2("prepend", l, m, prepend(arena, lists[l], lists[m]),
          arena_prepend(plain.arena, plain.lists[l], plain.lists[m]))

\* if let Some(list) = l.split_off(at) { m = list }, m being empty.
BothSplitOff(l, m, at) ==
    /\ ~panicked /\ ~plain.panicked
    /\ l # m
    /\ lists[m] = None /\ plain.lists[m] = None
    /\ Len(arena) + Min(at, len(arena, lists[l])) <= MaxNodes
    /\ LET r == split_off(arena, lists[l], at)
           q == arena_split_off(plain.arena, plain.lists[l], at)
       IN  /\ arena' = r.arena
           /\ lists' = [lists EXCEPT ![l] = r.self,
                                     ![m] = IF r.ret = None THEN @
                                            ELSE Unwrap(r.ret)]
           /\ panicked' = r.panic
           /\ dbg_failed' = (dbg_failed \/ r.dbg)
           /\ plain' = [arena |-> q.arena,
                        lists |-> [plain.lists EXCEPT
                                     ![l] = q.self,
                                     ![m] = IF q.ret = None THEN @
                                            ELSE Unwrap(q.ret)],
                        panicked |-> q.panic, op |-> "split_off",
                        ret |-> IF q.ret = None THEN None ELSE Some(0),
                        lib_ret |-> IF r.ret = None THEN None ELSE Some(0)]
    /\ UNCHANGED <<last, run, cursor, token, third, opt, first, deiter>>

BothClear(l) ==
    Both1("clear", l, clear(arena, lists[l]),
          arena_clear(plain.arena, plain.lists[l]))

NextPlain ==
    \/ \E l \in ListIds : BothPushFront(l)
    \/ \E l \in ListIds : BothPushBack(l)
    \/ \E l \in ListIds : BothPopFront(l)
    \/ \E l \in ListIds : BothPopBack(l)
    \/ \E l, m \in ListIds : BothAppend(l, m)
    \/ \E l, m \in ListIds : BothPrepend(l, m)
    \/ \E l, m \in ListIds : \E at \in 0..MaxAt : BothSplitOff(l, m, at)
    \/ \E l \in ListIds : BothClear(l)

SpecPlain == Init /\ [][NextPlain]_vars

\* C31: the lists of arena.rs and of lib.rs behave alike.  After the same
\* calls of push, pop, append, prepend, split_off and clear on both, every
\* pop has returned the same in both, split_off has returned a list in both
\* or in neither, neither has panicked unless the other has, and each list
\* reads the same in both, head to tail and tail to head.
C31_SameBehaviour ==
    /\ plain.ret = plain.lib_ret
    /\ plain.panicked = panicked
    /\ \A l \in ListIds :
          /\ arena_iter_collect(plain.arena, plain.lists[l]) =
                iter_collect(arena, lists[l])
          /\ arena_backward(plain.arena, plain.lists[l]) =
                backward(arena, lists[l])
          /\ (plain.lists[l] = None) <=> (lists[l] = None)

\* An append has joined two lists into one of three elements in both
\* variants.
C31_Witness ==
    /\ plain.op = "append"
    /\ Len(arena_iter_collect(plain.arena, plain.lists["l1"])) = 3
    /\ Len(arena_backward(plain.arena, plain.lists["l1"])) = 3
    /\ Len(iter_collect(arena, lists["l1"])) = 3
    /\ plain.lists["l2"] = None

(* ------------------------------ the variant of src/src/arena_option.rs *)

\* The arena holds Option<Node>: a slot is None once its node has been
\* taken, and a node has a value, not an Option of one.

\* Node::new: arena.alloc(Some(node)).
opt_node_new(ar, value) ==
    [arena |-> Append(ar, Some([value |-> value, left |-> None,
                                right |-> None])),
     node |-> Len(ar) + 1]

\* GhostCell::take on a slot: the slot is left None.
opt_take(ar, node) ==
    [arena |-> [ar EXCEPT ![node] = None],
     value |-> IF ar[node] = None THEN None ELSE Some(Unwrap(ar[node]).value)]

\* slot.as_mut().unwrap().left = link and .right = link.
opt_set_left(ar, node, link) ==
    [ar EXCEPT ![node] = Some([Unwrap(@) EXCEPT !.left = link])]

opt_set_right(ar, node, link) ==
    [ar EXCEPT ![node] = Some([Unwrap(@) EXCEPT !.right = link])]

opt_push_front(ar, self, value) ==
    LET nn == opt_node_new(ar, value)
        new_node == nn.node
    IN  IF self # None
        THEN LET head == Unwrap(self)[1]
                 tail == Unwrap(self)[2]
             IN  IF nn.arena[head] = None
                 THEN Res(nn.arena, None, None, TRUE, FALSE)
                 ELSE Res(opt_set_right(opt_set_left(nn.arena, head,
                                                     Some(new_node)),
                                        new_node, Some(head)),
                          Some(<<new_node, tail>>), None, FALSE, FALSE)
        ELSE Res(nn.arena, Some(<<new_node, new_node>>), None, FALSE, FALSE)

opt_push_back(ar, self, value) ==
    LET nn == opt_node_new(ar, value)
        new_node == nn.node
    IN  IF self # None
        THEN LET head == Unwrap(self)[1]
                 tail == Unwrap(self)[2]
             IN  IF nn.arena[tail] = None
                 THEN Res(nn.arena, None, None, TRUE, FALSE)
                 ELSE Res(opt_set_left(opt_set_right(nn.arena, tail,
                                                     Some(new_node)),
                                       new_node, Some(tail)),
                          Some(<<head, new_node>>), None, FALSE, FALSE)
        ELSE Res(nn.arena, Some(<<new_node, new_node>>), None, FALSE, FALSE)

opt_pop_front(ar, self) ==
    IF self = None
    THEN Res(ar, None, None, FALSE, FALSE)
    ELSE LET head == Unwrap(self)[1]
             tail == Unwrap(self)[2]
         IN  IF head = tail
             THEN LET t == opt_take(ar, head)
                  IN  Res(t.arena, None, t.value, FALSE, FALSE)
             ELSE IF ar[head] = None \/ Unwrap(ar[head]).right = None
             THEN Res(ar, None, None, TRUE, FALSE)
             ELSE LET next == Unwrap(Unwrap(ar[head]).right)
                      ar1 == opt_set_right(ar, head, None)
                  IN  IF ar1[next] = None \/ Unwrap(ar1[next]).left = None
                      THEN Res(ar1, None, None, TRUE, FALSE)
                      ELSE LET t == opt_take(opt_set_left(ar1, next, None),
                                             head)
                           IN  Res(t.arena, Some(<<next, tail>>), t.value,
                                   FALSE, FALSE)

\* The last statement of pop_back is head.take(token): the slot it empties
\* and the value it returns are the head's.
opt_pop_back(ar, self) ==
    IF self = None
    THEN Res(ar, None, None, FALSE, FALSE)
    ELSE LET head == Unwrap(self)[1]
             tail == Unwrap(self)[2]
         IN  IF head = tail
             THEN LET t == opt_take(ar, head)
                  IN  Res(t.arena, None, t.value, FALSE, FALSE)
             ELSE IF ar[tail] = None \/ Unwrap(ar[tail]).left = None
             THEN Res(ar, None, None, TRUE, FALSE)
             ELSE LET prev == Unwrap(Unwrap(ar[tail]).left)
                      ar1 == opt_set_left(ar, tail, None)
                  IN  IF ar1[prev] = None \/ Unwrap(ar1[prev]).right = None
                      THEN Res(ar1, None, None, TRUE, FALSE)
                      ELSE LET t == opt_take(opt_set_right(ar1, prev, None),
                                             head)
                           IN  Res(t.arena, Some(<<head, prev>>), t.value,
                                   FALSE, FALSE)

\* Cursor::current and Cursor::move_right, and list.iter(token).collect().
opt_current(ar, c) ==
    IF c = None \/ ar[Unwrap(c)] = None THEN None
    ELSE Some(Unwrap(ar[Unwrap(c)]).value)

opt_peek_right_node(ar, c) ==
    IF c = None \/ ar[Unwrap(c)] = None THEN None
    ELSE Unwrap(ar[Unwrap(c)]).right

RECURSIVE opt_iter_collect_from(_, _, _)
opt_iter_collect_from(ar, c, fuel) ==
    LET item == opt_current(ar, c)
    IN  IF item = None \/ fuel = 0
        THEN <<>>
        ELSE <<Unwrap(item)>> \o
             opt_iter_collect_from(ar, opt_peek_right_node(ar, c), fuel - 1)

opt_iter_collect(ar, self) ==
    opt_iter_collect_from(ar, new_front(self), Len(ar) + 1)

\* A call on the list with result r; `items` is what the list should hold
\* after it.
OptCall(op, r, items) ==
    /\ ~opt.panicked
    /\ opt' = [arena |-> r.arena, head_tail |-> r.self, op |-> op,
               ret |-> r.ret, from |-> opt.head_tail, pre |-> opt.items,
               items |-> items, panicked |-> r.panic]
    /\ UNCHANGED <<heap, cursor, token, third, plain, first, deiter>>

OptPushFront ==
    /\ Len(opt.arena) < MaxOptNodes
    /\ OptCall("push_front",
               opt_push_front(opt.arena, opt.head_tail, Len(opt.arena) + 1),
               <<Len(opt.arena) + 1>> \o opt.items)

OptPushBack ==
    /\ Len(opt.arena) < MaxOptNodes
    /\ OptCall("push_back",
               opt_push_back(opt.arena, opt.head_tail, Len(opt.arena) + 1),
               Append(opt.items, Len(opt.arena) + 1))

OptPopFront ==
    OptCall("pop_front", opt_pop_front(opt.arena, opt.head_tail),
            IF opt.items = <<>> THEN <<>> ELSE Tail(opt.items))

OptPopBack ==
    OptCall("pop_back", opt_pop_back(opt.arena, opt.head_tail),
            IF opt.items = <<>> THEN <<>>
            ELSE SubSeq(opt.items, 1, Len(opt.items) - 1))

NextOpt == OptPushFront \/ OptPushBack \/ OptPopFront \/ OptPopBack

SpecOpt == Init /\ [][NextOpt]_vars

\* C35: in arena_option.rs pop_back on a list of two or more elements
\* returns the value of the last element, empties the slot of the tail node
\* and leaves the slot of the head node present, so that the list that
\* remains iterates as the elements before the last.
C35_PopBack ==
    opt.op = "pop_back" /\ Len(opt.pre) >= 2 =>
        /\ ~opt.panicked
        /\ opt.ret = Some(opt.pre[Len(opt.pre)])
        /\ opt.arena[Unwrap(opt.from)[2]] = None
        /\ opt.arena[Unwrap(opt.from)[1]] # None
        /\ opt_iter_collect(opt.arena, opt.head_tail) = opt.items

(* ------------------------------ the Rc/RefCell list of src/crates/first *)

\* The heap of the Rc allocations: node n has its value, its two links and
\* its strong count.  Rc::clone adds one to the count, dropping an Rc takes
\* one off, moving an Rc leaves it; the value is gone once the Rc has been
\* unwrapped.  A call's result is [heap, self, len, ret, panic, unwrapped].

RcRes(hp, self, ln, ret, panic, unwrapped) ==
    [heap |-> hp, self |-> self, len |-> ln, ret |-> ret, panic |-> panic,
     unwrapped |-> unwrapped]

\* Node::new: Rc::new gives a count of one.
rc_node_new(hp, value) ==
    [heap |-> Append(hp, [value |-> Some(value), prev |-> None,
                          next |-> None, strong |-> 1]),
     node |-> Len(hp) + 1]

rc_clone(hp, n) == [hp EXCEPT ![n].strong = @ + 1]

rc_drop(hp, n) == [hp EXCEPT ![n].strong = @ - 1]

\* Rc::try_unwrap(n).ok().expect(..).into_inner().value
rc_try_unwrap(hp, n) ==
    IF hp[n].strong = 1
    THEN [heap |-> [hp EXCEPT ![n].strong = 0, ![n].value = None],
          value |-> hp[n].value, panic |-> FALSE, strong |-> 1]
    ELSE [heap |-> hp, value |-> None, panic |-> TRUE,
          strong |-> hp[n].strong]

rc_push_front(hp, self, ln, value) ==
    LET nn == rc_node_new(hp, value)
        new_head == nn.node
    IN  IF self # None
        THEN LET head == Unwrap(self)[1]
                 tail == Unwrap(self)[2]
                 h1 == [rc_clone(nn.heap, new_head) EXCEPT
                          ![head].prev = Some(new_head)]
                 h2 == [h1 EXCEPT ![new_head].next = Some(head)]
             IN  RcRes(h2, Some(<<new_head, tail>>), ln + 1, None, FALSE, <<>>)
        ELSE RcRes(rc_clone(nn.heap, new_head), Some(<<new_head, new_head>>),
                   ln + 1, None, FALSE, <<>>)

rc_push_back(hp, self, ln, value) ==
    LET nn == rc_node_new(hp, value)
        new_tail == nn.node
    IN  IF self # None
        THEN LET head == Unwrap(self)[1]
                 tail == Unwrap(self)[2]
                 h1 == [rc_clone(nn.heap, new_tail) EXCEPT
                          ![tail].next = Some(new_tail)]
                 h2 == [h1 EXCEPT ![new_tail].prev = Some(tail)]
             IN  RcRes(h2, Some(<<head, new_tail>>), ln + 1, None, FALSE, <<>>)
        ELSE RcRes(rc_clone(nn.heap, new_tail), Some(<<new_tail, new_tail>>),
                   ln + 1, None, FALSE, <<>>)

\* pop_front that leaves the old head's Rc in the prev link of the new head.
rc_pop_front_no_drop(hp, self, ln) ==
    IF self = None
    THEN RcRes(hp, None, ln, None, FALSE, <<>>)
    ELSE LET head == Unwrap(self)[1]
             tail == Unwrap(self)[2]
         IN  IF head = tail
             THEN LET u == rc_try_unwrap(rc_drop(hp, tail), head)
                  IN  RcRes(u.heap, None, ln, u.value, u.panic, <<u.strong>>)
             ELSE IF hp[head].next = None
             THEN RcRes(hp, None, ln, None, TRUE, <<>>)
             ELSE LET new_head == Unwrap(hp[head].next)
                      h1 == [hp EXCEPT ![head].next = None]
                      u == rc_try_unwrap(h1, head)
                  IN  RcRes(u.heap, Some(<<new_head, tail>>), ln - 1,
                            u.value, u.panic, <<u.strong>>)

rc_pop_front(hp, self, ln) ==
    IF self = None
    THEN RcRes(hp, None, ln, None, FALSE, <<>>)
    ELSE LET head == Unwrap(self)[1]
             tail == Unwrap(self)[2]
         IN  IF head = tail
             THEN LET u == rc_try_unwrap(rc_drop(hp, tail), head)
                  IN  RcRes(u.heap, None, ln, u.value, u.panic, <<u.strong>>)
             ELSE IF hp[head].next = None
             THEN RcRes(hp, None, ln, None, TRUE, <<>>)
             ELSE LET new_head == Unwrap(hp[head].next)
                      h1 == [hp EXCEPT ![head].next = None]
                  IN  IF h1[new_head].prev = None
                      THEN RcRes(h1, None, ln, None, TRUE, <<>>)
                      ELSE LET old == Unwrap(h1[new_head].prev)
                               h2 == rc_drop([h1 EXCEPT ![new_head].prev = None],
                                             old)
                               u == rc_try_unwrap(h2, head)
                           IN  RcRes(u.heap, Some(<<new_head, tail>>), ln - 1,
                                     u.value, u.panic, <<u.strong>>)

rc_pop_back(hp, self, ln) ==
    IF self = None
    THEN RcRes(hp, None, ln, None, FALSE, <<>>)
    ELSE LET head == Unwrap(self)[1]
             tail == Unwrap(self)[2]
         IN  IF head = tail
             THEN LET u == rc_try_unwrap(rc_drop(hp, head), tail)
                  IN  RcRes(u.heap, None, ln, u.value, u.panic, <<u.strong>>)
             ELSE IF hp[tail].prev = None
             THEN RcRes(hp, None, ln, None, TRUE, <<>>)
             ELSE LET new_tail == Unwrap(hp[tail].prev)
                      h1 == [hp EXCEPT ![tail].prev = None]
                  IN  IF h1[new_tail].next = None
                      THEN RcRes(h1, None, ln, None, TRUE, <<>>)
                      ELSE LET old == Unwrap(h1[new_tail].next)
                               h2 == rc_drop([h1 EXCEPT ![new_tail].next = None],
                                             old)
                               u == rc_try_unwrap(h2, tail)
                           IN  RcRes(u.heap, Some(<<head, new_tail>>), ln - 1,
                                     u.value, u.panic, <<u.strong>>)

\* clear, and Drop::drop: while self.pop_front().is_some() {}
RECURSIVE rc_drain(_, _, _, _)
rc_drain(hp, self, ln, unwrapped) ==
    LET p == rc_pop_front(hp, self, ln)
    IN  IF p.panic \/ p.ret = None
        THEN RcRes(p.heap, p.self, p.len, None, p.panic,
                   unwrapped \o p.unwrapped)
        ELSE rc_drain(p.heap, p.self, p.len, unwrapped \o p.unwrapped)

rc_clear(hp, self, ln) == rc_drain(hp, self, ln, <<>>)

\* The members of the list, head to tail over the next links.
RECURSIVE rc_members_from(_, _, _)
rc_members_from(hp, c, fuel) ==
    IF c = None \/ fuel = 0 THEN <<>>
    ELSE <<Unwrap(c)>> \o rc_members_from(hp, hp[Unwrap(c)].next, fuel - 1)

rc_members(hp, self) == rc_members_from(hp, new_front(self), Len(hp))

\* A call on the list with result r.
FirstCall(op, r) ==
    /\ ~first.panicked
    /\ first' = [len |-> r.len, head_tail |-> r.self, heap |-> r.heap,
                 op |-> op, ret |-> r.ret, unwrapped |-> r.unwrapped,
                 pre |-> rc_members(first.heap, first.head_tail),
                 panicked |-> r.panic]
    /\ UNCHANGED <<heap, cursor, token, third, plain, opt, deiter>>

FirstPushFront ==
    /\ Len(first.heap) < MaxRcNodes
    /\ FirstCall("push_front",
                 rc_push_front(first.heap, first.head_tail, first.len,
                               Len(first.heap) + 1))

FirstPushBack ==
    /\ Len(first.heap) < MaxRcNodes
    /\ FirstCall("push_back",
                 rc_push_back(first.heap, first.head_tail, first.len,
                              Len(first.heap) + 1))

FirstPopFront ==
    FirstCall("pop_front", rc_pop_front(first.heap, first.head_tail, first.len))

FirstPopBack ==
    FirstCall("pop_back", rc_pop_back(first.heap, first.head_tail, first.len))

FirstClear ==
    FirstCall("clear", rc_clear(first.heap, first.head_tail, first.len))

\* The list goes out of scope, Drop::drop drains it, and LinkedList::new
\* makes the next one; the nodes allocated so far stay counted.
FirstDrop ==
    LET r == rc_clear(first.heap, first.head_tail, first.len)
    IN  FirstCall("drop", [r EXCEPT !.len = IF r.panic THEN @ ELSE 0])

NextFirst ==
    \/ FirstPushFront
    \/ FirstPushBack
    \/ FirstPopFront
    \/ FirstPopBack
    \/ FirstClear
    \/ FirstDrop

SpecFirst == Init /\ [][NextFirst]_vars

\* The Rc's that point at node n: the links of the nodes and the two ends
\* of the boundary pair.
RcRefs(n) ==
    Cardinality({m \in 1..Len(first.heap) : first.heap[m].next = Some(n)})
    + Cardinality({m \in 1..Len(first.heap) : first.heap[m].prev = Some(n)})
    + (IF first.head_tail # None /\ Unwrap(first.head_tail)[1] = n
       THEN 1 ELSE 0)
    + (IF first.head_tail # None /\ Unwrap(first.head_tail)[2] = n
       THEN 1 ELSE 0)

\* C37: in the Rc/RefCell list every member node has exactly two strong
\* references, held by the links of its neighbours and the boundary pair;
\* every node a pop removes is down to one when Rc::try_unwrap is called
\* on it, and none is left on a node that is not a member; no call panics,
\* the drain of Drop included.
C37_TwoStrong ==
    /\ ~first.panicked
    /\ \A n \in 1..Len(first.heap) :
          LET member == \E i \in 1..Len(rc_members(first.heap, first.head_tail)) :
                            rc_members(first.heap, first.head_tail)[i] = n
          IN  /\ first.heap[n].strong = RcRefs(n)
              /\ first.heap[n].strong = IF member THEN 2 ELSE 0
    /\ \A i \in 1..Len(first.unwrapped) : first.unwrapped[i] = 1
    /\ first.op \in {"pop_front", "pop_back"} /\ first.pre # <<>> =>
          /\ Len(first.unwrapped) = 1
          /\ first.ret # None
    /\ first.op \in {"clear", "drop"} =>
          Len(first.unwrapped) = Len(first.pre)

\* Drop has drained a list of three nodes.
C37_Witness ==
    /\ first.op = "drop"
    /\ Len(first.pre) = 3
    /\ first.unwrapped = <<1, 1, 1>>

(* ------------------------- the double-ended iterator of src/lists/fifth *)

\* The list of lists/fifth is built by the push_front, push_back, pop_front
\* and pop_back of src/src/lib.rs, its links being named prev and next where
\* lib.rs has left and right; its Iter holds the pair of the nodes that
\* bound what it has not yielded yet.  The Iter of lists/second, fourth and
\* sixth and of the slot-map list have the same next and next_back.

\* list.iter(token): the boundary pair as plain references.
de_iter(self) == self

\* next that moves on over the next link without comparing head and tail.
de_next_no_meet(ar, head_tail) ==
    IF head_tail = None
    THEN [head_tail |-> None, item |-> None, panic |-> FALSE]
    ELSE LET head == Unwrap(head_tail)[1]
             tail == Unwrap(head_tail)[2]
             node == ar[head]
         IN  [head_tail |-> IF node.right = None THEN None
                            ELSE Some(<<Unwrap(node.right), tail>>),
              item |-> node.value, panic |-> node.value = None]

\* Iter::next: the head is yielded; the pair becomes (head.next, tail), or
\* None when head and tail are one node.
de_next(ar, head_tail) ==
    IF head_tail = None
    THEN [head_tail |-> None, item |-> None, panic |-> FALSE]
    ELSE LET head == Unwrap(head_tail)[1]
             tail == Unwrap(head_tail)[2]
             node == ar[head]
         IN  [head_tail |-> IF head # tail
                            THEN IF node.right = None THEN None
                                 ELSE Some(<<Unwrap(node.right), tail>>)
                            ELSE None,
              item |-> node.value, panic |-> node.value = None]

\* Iter::next_back: the tail is yielded; the pair becomes (head, tail.prev).
de_next_back(ar, head_tail) ==
    IF head_tail = None
    THEN [head_tail |-> None, item |-> None, panic |-> FALSE]
    ELSE LET head == Unwrap(head_tail)[1]
             tail == Unwrap(head_tail)[2]
             node == ar[tail]
         IN  [head_tail |-> IF head # tail
                            THEN IF node.left = None THEN None
                                 ELSE Some(<<head, Unwrap(node.left)>>)
                            ELSE None,
              item |-> node.value, panic |-> node.value = None]

\* The list is pushed to and popped from while no iterator borrows it.
DePushFront(l) == deiter.kind = "none" /\ QuietPushFront(l)

DePushBack(l) == deiter.kind = "none" /\ QuietPushBack(l)

DePopFront(l) == deiter.kind = "none" /\ QuietPopFront(l)

DePopBack(l) == deiter.kind = "none" /\ QuietPopBack(l)

DeIterNew(l) ==
    /\ ~panicked
    /\ deiter.kind = "none"
    /\ deiter' = [NoIter EXCEPT !.kind = "Iter", !.l = l, !.op = "iter",
                                !.head_tail = de_iter(lists[l])]
    /\ UNCHANGED <<heap, cursor, token, third, plain, opt, first>>

\* A call of next or next_back with result n; item is where it is kept.
DeCall(op, n) ==
    /\ deiter.kind = "Iter"
    /\ ~deiter.panicked
    /\ deiter.nones < MaxNones
    /\ deiter' = [deiter EXCEPT
                    !.op = op, !.head_tail = n.head_tail, !.ret = n.item,
                    !.front = IF op = "next" /\ n.item # None
                              THEN Append(@, Unwrap(n.item)) ELSE @,
                    !.back = IF op = "next_back" /\ n.item # None
                             THEN Append(@, Unwrap(n.item)) ELSE @,
                    !.nones = IF n.item = None THEN @ + 1 ELSE @,
                    !.panicked = n.panic]
    /\ UNCHANGED <<heap, cursor, token, third, plain, opt, first>>

DeNext == DeCall("next", de_next(arena, deiter.head_tail))

DeNextBack == DeCall("next_back", de_next_back(arena, deiter.head_tail))

\* The iterator goes out of scope.
DeDrop ==
    /\ deiter.kind = "Iter"
    /\ deiter' = NoIter
    /\ UNCHANGED <<heap, cursor, token, third, plain, opt, first>>

NextDeIter ==
    \/ \E l \in ListIds : DePushFront(l)
    \/ \E l \in ListIds : DePushBack(l)
    \/ \E l \in ListIds : DePopFront(l)
    \/ \E l \in ListIds : DePopBack(l)
    \/ \E l \in ListIds : DeIterNew(l)
    \/ DeNext
    \/ DeNextBack
    \/ DeDrop

SpecDeIter == Init /\ [][NextDeIter]_vars

\* C38: whatever the order of the calls of next() and next_back() on an
\* iterator over a list of n elements, the items of next() are the first
\* elements of the list head to tail, the items of next_back() the last
\* ones tail to head, no element is yielded twice, and a call returns None
\* when and only when the n elements have been yielded.
C38_DoubleEnded ==
    deiter.kind = "Iter" =>
        LET items == NodesRight(arena, lists[deiter.l])
            n == Len(items)
            f == Len(deiter.front)
            b == Len(deiter.back)
        IN  /\ ~deiter.panicked
            /\ f + b <= n
            /\ \A i \in 1..f : Some(deiter.front[i]) = arena[items[i]].value
            /\ \A i \in 1..b :
                  Some(deiter.back[i]) = arena[items[n + 1 - i]].value
            /\ (deiter.head_tail = None) <=> (f + b = n)
            /\ deiter.nones > 0 => f + b = n
            /\ deiter.op \in {"next", "next_back"} =>
                  ((deiter.ret = None) <=> (deiter.nones > 0))

\* next() and next_back() have shared the three elements of a list and a
\* further call has returned None.
C38_Witness ==
    /\ deiter.kind = "Iter"
    /\ Len(deiter.front) = 2
    /\ Len(deiter.back) = 1
    /\ deiter.op = "next_back"
    /\ deiter.nones = 1

(* ------------------------------------------- split_off and append *)

\* C34: split_off and append are inverse.  For a list l of length n and
\* every at <= n, t = l.split_off(at) followed by l.append(t) leaves l with
\* the elements it had, forward and backward, and t empty.
C34_SplitOffAppend ==
    \A l \in ListIds :
        \A at \in 0..Min(MaxAt, len(arena, lists[l])) :
            LET r == split_off(arena, lists[l], at)
                a == append(r.arena, r.self, Unwrap(r.ret))
            IN  /\ ~r.panic /\ ~a.panic
                /\ iter_collect(a.arena, a.self) =
                      iter_collect(arena, lists[l])
                /\ backward(a.arena, a.self) =
                      Reverse(iter_collect(arena, lists[l]))
                /\ a.other = None

\* An append has put back what a split_off(1) had returned from a list of
\* three, in both variants.
C34_Witness ==
    /\ plain.op = "append"
    /\ NodesRight(arena, lists["l1"]) = <<4, 2, 3>>
    /\ lists["l2"] = None

====
